---------------------------- MODULE Spec2Model ----------------------------
(***************************************************************************)
(* A model of the rendering core of the "o" text editor: the document      *)
(* (a map from line index to runes), the cursor/scroll Position, the       *)
(* data<->screen coordinate conversion, and WriteLines.                    *)
(*                                                                         *)
(* Text is modelled as a sequence of one-character strings (one entry per  *)
(* code point).                                                            *)
(***************************************************************************)
EXTENDS Integers, Sequences, FiniteSets, TLC

VARIABLES
    lines,      \* e.lines: map[int][]rune, a function from a finite key set
    pos,        \* e.pos: [sx, sy, offsetX, offsetY]
    changed,    \* e.changed
    perTab,     \* e.indentation.PerTab (e.tabsSpaces.PerTab in highlight.go)
    canvasW,    \* c.Width()
    canvasH,    \* c.Height()
    op,         \* the last editor operation with its argument and results
    mode,               \* e.mode
    syntaxHighlight,    \* e.syntaxHighlight
    rainbowParenthesis, \* e.rainbowParenthesis
    envNoColor,         \* envNoColor, set from NO_COLOR at start
    searchTerm,         \* e.searchTerm
    writeLinesMutex,    \* 0 when unlocked, else the goroutine holding it
    frame,              \* per goroutine: the locals of its WriteLines call
    canvas,             \* the cells of the canvas, by <<x, y>>
    stdout,             \* the lines printed with fmt.Println
    quitChan,           \* the channel Spinner returns: "none" before the call,
                        \* "open", "sending" while a send waits, "received"
    spinner             \* the goroutine Spinner starts: its place and locals

renderVars == <<mode, syntaxHighlight, rainbowParenthesis, envNoColor, searchTerm,
                writeLinesMutex, frame, canvas, stdout>>

spinVars == <<quitChan, spinner>>

vars == <<lines, pos, changed, perTab, canvasW, canvasH, op, renderVars, spinVars>>

(***************************************************************************)
(* Bounds of the model.                                                    *)
(***************************************************************************)
MaxLen == 2       \* longest line, in code points
MaxLines == 3     \* most lines of a document drawn at Init
MaxTab == 2       \* widest tab
MaxH == 2         \* tallest canvas
MaxW == 3         \* widest canvas
MaxX == 3         \* largest column given to SetX

(***************************************************************************)
(* Characters and strings.                                                 *)
(***************************************************************************)
Tab == "\t"

IsSpace(c) == c \in {" ", Tab}

Max(S) == CHOOSE m \in S : \A n \in S : n <= m

Min(S) == CHOOSE m \in S : \A n \in S : m <= n

RECURSIVE SeqsUpTo(_, _)
SeqsUpTo(S, n) ==
    IF n = 0 THEN {<<>>}
    ELSE LET shorter == SeqsUpTo(S, n - 1)
         IN  shorter \cup {Append(s, c) : s \in shorter, c \in S}

(***************************************************************************)
(* The string functions of Go used by the editor, on sequences of code     *)
(* points.                                                                 *)
(***************************************************************************)
HasPrefix(s, p) == Len(p) <= Len(s) /\ SubSeq(s, 1, Len(p)) = p

HasSuffix(s, p) == Len(p) <= Len(s) /\ SubSeq(s, Len(s) - Len(p) + 1, Len(s)) = p

MatchAt(s, sub, i) == i + Len(sub) - 1 <= Len(s) /\ SubSeq(s, i, i + Len(sub) - 1) = sub

Contains(s, sub) == \E i \in 1..(Len(s) + 1) : MatchAt(s, sub, i)

\* strings.Count: the number of non-overlapping instances of a non-empty sub
RECURSIVE CountFrom(_, _, _)
CountFrom(s, sub, i) ==
    IF i + Len(sub) - 1 > Len(s) THEN 0
    ELSE IF MatchAt(s, sub, i) THEN 1 + CountFrom(s, sub, i + Len(sub))
    ELSE CountFrom(s, sub, i + 1)

Count(s, sub) == CountFrom(s, sub, 1)

RECURSIVE TrimLeft(_)
TrimLeft(s) == IF Len(s) > 0 /\ IsSpace(s[1]) THEN TrimLeft(Tail(s)) ELSE s

RECURSIVE TrimRight(_)
TrimRight(s) ==
    IF Len(s) > 0 /\ IsSpace(s[Len(s)]) THEN TrimRight(SubSeq(s, 1, Len(s) - 1)) ELSE s

TrimSpace(s) == TrimLeft(TrimRight(s))

\* strings.Replace(line, "\t", tabString, -1) with tabString = n spaces
RECURSIVE ExpandTabs(_, _)
ExpandTabs(s, n) ==
    IF Len(s) = 0 THEN <<>>
    ELSE (IF s[1] = Tab THEN [i \in 1..n |-> " "] ELSE <<s[1]>>) \o ExpandTabs(Tail(s), n)

(***************************************************************************)
(* The document.                                                           *)
(***************************************************************************)
\* e.lines[n] read as a Go map: a missing key gives the nil slice
LineRunes(n) == IF n \in DOMAIN lines THEN lines[n] ELSE <<>>

\* a rune value that is no valid code point; []rune(string) never yields one,
\* so that no line of the document holds it
InvalidRune == "bad"

\* strings.Builder.WriteRune: the rune as UTF-8, an invalid one as RuneError
WriteRune(r) == IF r = InvalidRune THEN "err" ELSE r

\* Line without the test of ok: a missing key gives the line of a present key
Line_Nearest(n) ==
    IF n \in DOMAIN lines THEN lines[n]
    ELSE IF DOMAIN lines = {} THEN <<>>
    ELSE lines[CHOOSE k \in DOMAIN lines : TRUE]

\* Editor.Line: the runes of line n written to a string, "" for a missing key
Line(n) ==
    IF n \in DOMAIN lines THEN [i \in 1..Len(lines[n]) |-> WriteRune(lines[n][i])]
    ELSE <<>>

EdLen == Max(DOMAIN lines \cup {0}) + 1

CountRune(r, n) == Cardinality({i \in 1..Len(LineRunes(n)) : LineRunes(n)[i] = r})

LastDataPosition(n) == Len(Line(n)) - 1

LastScreenPosition(n) == LastDataPosition(n) + CountRune(Tab, n) * (perTab - 1)

RECURSIVE FirstScreenWalk(_, _, _)
FirstScreenWalk(line, i, counter) ==
    IF i > Len(line) THEN counter
    ELSE IF line[i] = Tab THEN FirstScreenWalk(line, i + 1, counter + perTab)
    ELSE IF line[i] = " " THEN FirstScreenWalk(line, i + 1, counter + 1)
    ELSE counter

FirstScreenPosition(n) == FirstScreenWalk(Line(n), 1, 0)

(***************************************************************************)
(* Position: data coordinates from screen coordinates.                     *)
(***************************************************************************)
DataY == pos.offsetY + pos.sy

\* the loop of DataX: i - 1 is runeCounter
RECURSIVE DataXWalk_TabAsOne(_, _, _, _)
DataXWalk_TabAsOne(line, i, screenCounter, target) ==
    IF i > Len(line)
    THEN [x |-> i - 1, err |-> TRUE, screenCounter |-> screenCounter]
    ELSE IF screenCounter = target
    THEN [x |-> i - 1, err |-> FALSE, screenCounter |-> screenCounter]
    ELSE DataXWalk_TabAsOne(line, i + 1, screenCounter + 1, target)

RECURSIVE DataXWalk_OffByOne(_, _, _, _)
DataXWalk_OffByOne(line, i, screenCounter, target) ==
    IF i > Len(line)
    THEN [x |-> i - 1, err |-> TRUE, screenCounter |-> screenCounter]
    ELSE IF screenCounter = target
    THEN [x |-> i, err |-> FALSE, screenCounter |-> screenCounter]
    ELSE DataXWalk_OffByOne(line, i + 1,
             screenCounter + (IF line[i] = Tab THEN perTab ELSE 1), target)

RECURSIVE DataXWalk(_, _, _, _)
DataXWalk(line, i, screenCounter, target) ==
    IF i > Len(line)
    THEN [x |-> i - 1, err |-> TRUE, screenCounter |-> screenCounter]
    ELSE IF screenCounter = target
    THEN [x |-> i - 1, err |-> FALSE, screenCounter |-> screenCounter]
    ELSE DataXWalk(line, i + 1,
             screenCounter + (IF line[i] = Tab THEN perTab ELSE 1), target)

DataX == DataXWalk(LineRunes(DataY), 1, 0, pos.sx + pos.offsetX)

\* SetX that leaves sx at x when the view scrolls
SetX_KeepSx(p, x) ==
    IF x < canvasW
    THEN [p EXCEPT !.sx = x, !.offsetX = 0]
    ELSE [p EXCEPT !.sx = x, !.offsetX = (x - canvasW) + 1]

\* Position.SetX
SetX(p, x) ==
    IF x < canvasW
    THEN [p EXCEPT !.sx = x, !.offsetX = 0]
    ELSE [p EXCEPT !.sx = x - ((x - canvasW) + 1), !.offsetX = (x - canvasW) + 1]

(***************************************************************************)
(* GoTo.                                                                   *)
(***************************************************************************)
\* the last branch of GoTo: scrolling is needed
LessJump_KeepTarget(prevY, dataY) ==
    IF (prevY + (dataY - prevY)) < EdLen
    THEN [sy |-> prevY, offsetY |-> dataY]
    ELSE [sy |-> 0, offsetY |-> dataY]

LessJump(prevY, dataY) ==
    IF (prevY + (dataY - prevY)) < EdLen
    THEN [sy |-> prevY, offsetY |-> dataY - prevY]
    ELSE [sy |-> 0, offsetY |-> dataY]

\* the out of bounds checking of GoTo
ClampY(dataY) ==
    IF dataY < 0 THEN [dataY |-> 0, reachedTheEnd |-> FALSE]
    ELSE IF dataY >= EdLen THEN [dataY |-> EdLen - 1, reachedTheEnd |-> TRUE]
    ELSE [dataY |-> dataY, reachedTheEnd |-> FALSE]

\* the scrolling of GoTo, for a target other than the current line
GoToScroll(dataY, reachedTheEnd) ==
    LET h == canvasH
        topY == pos.offsetY
        botY == pos.offsetY + h
    IN  IF dataY >= topY /\ dataY < botY
        THEN [sy |-> IF dataY - pos.offsetY < 0 THEN 0 ELSE dataY - pos.offsetY,
              offsetY |-> pos.offsetY, branch |-> "window"]
        ELSE IF dataY < h
        THEN [sy |-> IF dataY < 0 THEN 0 ELSE dataY, offsetY |-> 0, branch |-> "top"]
        ELSE IF reachedTheEnd
        THEN [sy |-> h - 1, offsetY |-> EdLen - h, branch |-> "end"]
        ELSE [sy |-> LessJump(pos.sy, dataY).sy,
              offsetY |-> LessJump(pos.sy, dataY).offsetY, branch |-> "scroll"]

GoTo(target) ==
    IF target = DataY
    THEN /\ op' = [name |-> "GoTo", arg |-> target, reachedTheEnd |-> FALSE,
                   branch |-> "same"]
         /\ UNCHANGED <<lines, pos, changed, perTab, canvasW, canvasH, renderVars, spinVars>>
    ELSE LET cl == ClampY(target)
             sc == GoToScroll(cl.dataY, cl.reachedTheEnd)
             p1 == [pos EXCEPT !.sy = sc.sy, !.offsetY = sc.offsetY]
             y1 == p1.offsetY + p1.sy
         IN  /\ pos' = SetX(p1, FirstScreenPosition(y1))
             /\ op' = [name |-> "GoTo", arg |-> target,
                       reachedTheEnd |-> cl.reachedTheEnd, branch |-> sc.branch]
             /\ UNCHANGED <<lines, changed, perTab, canvasW, canvasH, renderVars, spinVars>>

\* Position.Down, as called by DownEnd
PosDown ==
    /\ IF pos.sy >= canvasH - 1
       THEN /\ pos' = pos
            /\ op' = [name |-> "Down", err |-> TRUE]
       ELSE /\ pos' = [pos EXCEPT !.sy = pos.sy + 1]
            /\ op' = [name |-> "Down", err |-> FALSE]
    /\ UNCHANGED <<lines, changed, perTab, canvasW, canvasH, renderVars, spinVars>>

\* Position.Up, as called by UpEnd
PosUp ==
    /\ IF pos.sy <= 0
       THEN /\ pos' = pos
            /\ op' = [name |-> "Up", err |-> TRUE]
       ELSE /\ pos' = [pos EXCEPT !.sy = pos.sy - 1]
            /\ op' = [name |-> "Up", err |-> FALSE]
    /\ UNCHANGED <<lines, changed, perTab, canvasW, canvasH, renderVars, spinVars>>

PosSetX(x) ==
    /\ pos' = SetX(pos, x)
    /\ op' = [name |-> "SetX", arg |-> x]
    /\ UNCHANGED <<lines, changed, perTab, canvasW, canvasH, renderVars, spinVars>>

CallDataX ==
    /\ op' = [name |-> "DataX", x |-> DataX.x, err |-> DataX.err,
              screenCounter |-> DataX.screenCounter]
    /\ UNCHANGED <<lines, pos, changed, perTab, canvasW, canvasH, renderVars, spinVars>>

(***************************************************************************)
(* The state of the renderer when no WriteLines call has been made.        *)
(***************************************************************************)
NumProcs == 2     \* goroutines that may call WriteLines

Procs == 1..NumProcs

\* a goroutine that has not called WriteLines: its place in the call (pc), the
\* arguments and local variables of the call, and what the call has done so
\* far (the lines replayed before the first row, the writes to the canvas,
\* the path and the calls of q.Process of the last row, the cells the last
\* row asked the canvas to write from column 0, its two counters, what it
\* printed, its runesAndAttributes, whether rainbowParen was called and found
\* a close bracket without an open one, the number of rows where it did, the
\* number of rows whose text has over two bytes more than code points, the
\* lexical state q before the last row, the transitions of the two flags
\* that the last row took and the most that one replayed line took)
IdleFrame ==
    [pc |-> "idle", fromline |-> 0, toline |-> 0, y |-> 0,
     q |-> [singleLineComment |-> FALSE, multiLineComment |-> FALSE,
            stoppedMultiLineComment |-> FALSE, startedMultiLineString |-> FALSE,
            backtick |-> 0, doubleQuote |-> 0, singleQuote |-> 0,
            parCount |-> 0, braCount |-> 0],
     inCodeBlock |-> FALSE, expandedRunes |-> FALSE, ret |-> "",
     replayed |-> 0, writes |-> 0, path |-> "", processCalls |-> 0,
     onlyHighlighted |-> TRUE,
     cells |-> <<>>, lineRuneCount |-> 0, lineStringCount |-> 0, out |-> <<>>,
     ra |-> [runes |-> <<>>, attrs |-> <<>>], rainbow |-> FALSE, unmatched |-> FALSE,
     unmatchedRows |-> 0, wideRows |-> 0, fired |-> {}, replayFired |-> 0,
     qRow |-> [singleLineComment |-> FALSE, multiLineComment |-> FALSE,
               stoppedMultiLineComment |-> FALSE, startedMultiLineString |-> FALSE,
               backtick |-> 0, doubleQuote |-> 0, singleQuote |-> 0,
               parCount |-> 0, braCount |-> 0]]

\* no Spinner call has been made: no channel, no goroutine
NoSpinner ==
    /\ quitChan = "none"
    /\ spinner = [pc |-> "none", i |-> 0, counter |-> 0, cNil |-> FALSE, ttyNil |-> FALSE,
                  noColor |-> FALSE, cursor |-> TRUE, frames |-> 0, drawn |-> ""]

NoRender ==
    /\ mode = "Go"
    /\ syntaxHighlight = TRUE
    /\ rainbowParenthesis = TRUE
    /\ envNoColor = FALSE
    /\ searchTerm = <<>>
    /\ writeLinesMutex = 0
    /\ frame = [p \in Procs |-> IdleFrame]
    /\ canvas = <<>>
    /\ stdout = <<>>
    /\ NoSpinner

(***************************************************************************)
(* SpecPos: a loaded document, the cursor moved by GoTo, Position.Down,    *)
(* Position.Up and SetX, and DataX read at every position.                 *)
(***************************************************************************)
PosChars == {"a", Tab}

NewPosition == [sx |-> 0, sy |-> 0, offsetX |-> 0, offsetY |-> 0]

InitPos ==
    /\ \E n \in 1..MaxLines : \E l \in SeqsUpTo(PosChars, MaxLen) :
          lines = [i \in 0..(n - 1) |-> l]
    /\ pos = NewPosition
    /\ changed = FALSE
    /\ perTab \in 1..MaxTab
    /\ canvasW \in 2..MaxW
    /\ canvasH \in 1..MaxH
    /\ op = [name |-> "New"]
    /\ NoRender

NextPos ==
    \/ \E t \in (0 - 1)..(MaxLines + 1) : GoTo(t)
    \/ PosDown
    \/ PosUp
    \/ \E x \in 0..MaxX : PosSetX(x)
    \/ CallDataX

SpecPos == InitPos /\ [][NextPos]_vars

(***************************************************************************)
(* Runes, bytes and cells.  A rune is a one-element string; the runes the  *)
(* strings of the model cannot spell are named tokens.                     *)
(***************************************************************************)
\* ^H, the rune 0x8
BS == "^H"

\* a rune of four bytes in UTF-8
WideRune == "w4"

\* controlRuneReplacement, two bytes in UTF-8
ControlRuneReplacement == "ctl"

\* the replacement rune a byte that is not UTF-8 decodes to
RuneError == "err"

IsControl(r) == r \in {BS, Tab, "\n", "\r"}

\* len(string(r))
ByteLen(r) ==
    IF r = WideRune THEN 4
    ELSE IF r = ControlRuneReplacement THEN 2
    ELSE IF r = RuneError THEN 3
    ELSE 1

\* the bytes of a string: byte k of the n bytes of rune r
RECURSIVE BytesOf(_)
BytesOf(s) ==
    IF Len(s) = 0 THEN <<>>
    ELSE [k \in 1..ByteLen(s[1]) |-> [r |-> s[1], k |-> k, n |-> ByteLen(s[1])]]
         \o BytesOf(Tail(s))

\* []rune(s) of a byte string: a byte outside a whole rune decodes to RuneError
RECURSIVE RunesOf(_)
RunesOf(bs) ==
    IF Len(bs) = 0 THEN <<>>
    ELSE IF /\ bs[1].k = 1
            /\ Len(bs) >= bs[1].n
            /\ \A j \in 1..bs[1].n : bs[j].k = j
    THEN <<bs[1].r>> \o RunesOf(SubSeq(bs, bs[1].n + 1, Len(bs)))
    ELSE <<RuneError>> \o RunesOf(Tail(bs))

(***************************************************************************)
(* Document-mutating operations.  The helpers take and return the lines    *)
(* map, so that an operation that calls another one is a composition.      *)
(***************************************************************************)
DocMaxLen == 1    \* longest line built by the document operations
DocMaxKey == 2    \* largest line index used by the document operations

MapGet(ls, k) == IF k \in DOMAIN ls THEN ls[k] ELSE <<>>

MapPut(ls, k, v) == [i \in DOMAIN ls \cup {k} |-> IF i = k THEN v ELSE ls[i]]

MapDelete(ls, k) == [i \in DOMAIN ls \ {k} |-> ls[i]]

EmptyMap == [i \in {} |-> <<>>]

LenOf(ls) == Max(DOMAIN ls \cup {0}) + 1

Repeat(c, n) == [i \in 1..n |-> c]

\* s[:x] and s[x:] of Go, x counted from 0
Take(s, x) == SubSeq(s, 1, x)

Drop(s, x) == SubSeq(s, x + 1, Len(s))

\* MakeConsistent: the loop re-reads len(e.lines) at every iteration
RECURSIVE MakeConsistentFrom(_, _)
MakeConsistentFrom(ls, i) ==
    IF i >= Cardinality(DOMAIN ls) THEN ls
    ELSE IF i \in DOMAIN ls THEN MakeConsistentFrom(ls, i + 1)
    ELSE MakeConsistentFrom(MapPut(ls, i, <<>>), i + 1)

MakeConsistent(ls) == MakeConsistentFrom(ls, 0)

\* Set: store a rune at (x, y), padding a short line with spaces
SetRuneAt(ls, x, y, r) ==
    LET old == MapGet(ls, y)
        l == Len(old)
        padded == IF x < l THEN old ELSE old \o Repeat(" ", (x + 1) - l)
    IN  MapPut(ls, y, [padded EXCEPT ![x + 1] = r])

CreateLineIfMissingIn(ls, n) == IF n \in DOMAIN ls THEN ls ELSE MapPut(ls, n, <<>>)

\* the loop of SetLine: one Set per letter of s
RECURSIVE SetLineLoop(_, _, _, _)
SetLineLoop(ls, n, s, counter) ==
    IF counter >= Len(s) THEN ls
    ELSE SetLineLoop(SetRuneAt(ls, counter, n, s[counter + 1]), n, s, counter + 1)

SetLineIn(ls, n, s) ==
    SetLineLoop(MapPut(CreateLineIfMissingIn(ls, n), n, <<>>), n, s, 0)

\* the shifting loop of DeleteLine: e.lines[i] = e.lines[i+1] stores the nil
\* slice under i when i+1 is missing
RECURSIVE ShiftDown(_, _, _)
ShiftDown(ls, index, maxIndex) ==
    IF index > maxIndex - 1 THEN ls
    ELSE ShiftDown(MapPut(ls, index, MapGet(ls, index + 1)), index + 1, maxIndex)

\* DeleteLine: returns the new map and whether e.changed was set
DeleteLineIn(ls, n) ==
    IF n < 0 THEN [ls |-> ls, changed |-> FALSE]
    ELSE IF n >= LenOf(ls) - 1 THEN [ls |-> MapDelete(ls, n), changed |-> FALSE]
    ELSE LET maxIndex == Max(DOMAIN ls \cup {0})
         IN  IF maxIndex = 0 THEN [ls |-> ls, changed |-> FALSE]
             ELSE [ls |-> MakeConsistent(MapDelete(ShiftDown(ls, n, maxIndex), maxIndex)),
                   changed |-> TRUE]

\* "Skip trailing newlines after this line"
RECURSIVE SkipTrailing(_, _, _)
SkipTrailing(ls, i, y) ==
    IF i > y /\ Len(MapGet(ls, i)) = 0
    THEN SkipTrailing(MapDelete(ls, i), i - 1, y)
    ELSE ls

\* the map built by InsertLineAbove for y > 0 and by InsertLineBelowAt:
\* keys below at are kept, a blank line follows key at, later keys move up
InsertBlankAfter(ls, at) ==
    LET keys == {k \in DOMAIN ls : k <= at}
                   \cup {k + 1 : k \in {j \in DOMAIN ls : j >= at}}
    IN  [k \in keys |->
            IF k \in DOMAIN ls /\ k <= at THEN ls[k]
            ELSE IF k = at + 1 /\ at \in DOMAIN ls THEN <<>>
            ELSE ls[k - 1]]

InsertLineAboveIn(ls, y0) ==
    LET lines2 == IF y0 = 0
                  THEN [k \in {0} \cup {j + 1 : j \in DOMAIN ls} |->
                           IF k = 0 THEN <<>> ELSE ls[k - 1]]
                  ELSE InsertBlankAfter(ls, y0 - 1)
        y == IF y0 = 0 THEN 1 ELSE y0
        mc == MakeConsistent(lines2)
    IN  SkipTrailing(mc, Cardinality(DOMAIN mc), y)

InsertLineBelowAtIn(ls, y) ==
    LET mc == MakeConsistent(ls)
    IN  IF y = Cardinality(DOMAIN mc) - 1
        THEN MapPut(mc, y + 1, <<>>)
        ELSE LET lines2 == InsertBlankAfter(mc, y)
             IN  SkipTrailing(lines2, Cardinality(DOMAIN lines2), y)

\* LoadBytes: split the bytes at the newline bytes, drop an empty last piece
RECURSIVE SplitNL(_, _, _)
SplitNL(data, i, cur) ==
    IF i > Len(data) THEN <<cur>>
    ELSE IF data[i].r = "\n" THEN <<cur>> \o SplitNL(data, i + 1, <<>>)
    ELSE SplitNL(data, i + 1, Append(cur, data[i]))

\* LoadBytes that keeps the empty piece after a final newline
LoadBytesMap_KeepLast(data) ==
    LET byteLines == SplitNL(data, 1, <<>>)
    IN  [y \in 0..(Len(byteLines) - 1) |-> RunesOf(byteLines[y + 1])]

LoadBytesMap(data) ==
    LET byteLines == SplitNL(data, 1, <<>>)
        lb == Len(byteLines)
        kept == IF lb > 0 /\ Len(byteLines[lb]) = 0 THEN lb - 1 ELSE lb
    IN  [y \in 0..(kept - 1) |-> RunesOf(byteLines[y + 1])]

(***************************************************************************)
(* The document operations as actions.                                     *)
(***************************************************************************)
LoadBytes(data) ==
    /\ lines' = LoadBytesMap(data)
    /\ changed' = TRUE
    /\ op' = [name |-> "LoadBytes", arg |-> data]
    /\ UNCHANGED <<pos, perTab, canvasW, canvasH, renderVars, spinVars>>

Set(x, index, r) ==
    /\ lines' = SetRuneAt(lines, x, index, r)
    /\ changed' = TRUE
    /\ op' = [name |-> "Set", arg |-> index]
    /\ UNCHANGED <<pos, perTab, canvasW, canvasH, renderVars, spinVars>>

CreateLineIfMissing(n) ==
    /\ lines' = CreateLineIfMissingIn(lines, n)
    /\ changed' = (changed \/ n \notin DOMAIN lines)
    /\ op' = [name |-> "CreateLineIfMissing", arg |-> n]
    /\ UNCHANGED <<pos, perTab, canvasW, canvasH, renderVars, spinVars>>

SetLine(n, s) ==
    /\ lines' = SetLineIn(lines, n, s)
    /\ changed' = (changed \/ n \notin DOMAIN lines \/ Len(s) > 0)
    /\ op' = [name |-> "SetLine", arg |-> n]
    /\ UNCHANGED <<pos, perTab, canvasW, canvasH, renderVars, spinVars>>

Insert(r) ==
    LET x == DataX.x
        y == DataY
        line == MapGet(lines, y)
    IN  /\ IF y \notin DOMAIN lines
           THEN /\ lines' = MapPut(lines, y, <<r>>)
                /\ changed' = changed
           ELSE IF Len(line) < x
           THEN UNCHANGED <<lines, changed>>
           ELSE /\ lines' = MakeConsistent(
                              MapPut(lines, y, Take(line, x) \o <<r>> \o Drop(line, x)))
                /\ changed' = TRUE
        /\ op' = [name |-> "Insert", arg |-> y]
        /\ UNCHANGED <<pos, perTab, canvasW, canvasH, renderVars, spinVars>>

InsertBelow(y, r) ==
    /\ lines' = IF (y + 1) \notin DOMAIN lines THEN MapPut(lines, y + 1, <<r>>)
                ELSE IF Len(lines[y + 1]) > 0
                THEN MapPut(lines, y + 1, <<r>> \o lines[y + 1])
                ELSE MapPut(lines, y + 1, <<r>>)
    /\ op' = [name |-> "InsertBelow", arg |-> y]
    /\ UNCHANGED <<pos, changed, perTab, canvasW, canvasH, renderVars, spinVars>>

InsertLineAbove ==
    /\ lines' = InsertLineAboveIn(lines, DataY)
    /\ changed' = TRUE
    /\ op' = [name |-> "InsertLineAbove", arg |-> DataY]
    /\ UNCHANGED <<pos, perTab, canvasW, canvasH, renderVars, spinVars>>

InsertLineBelowAt(index) ==
    /\ lines' = InsertLineBelowAtIn(lines, index)
    /\ changed' = TRUE
    /\ op' = [name |-> "InsertLineBelowAt", arg |-> index]
    /\ UNCHANGED <<pos, perTab, canvasW, canvasH, renderVars, spinVars>>

DeleteLine(n) ==
    /\ lines' = DeleteLineIn(lines, n).ls
    /\ changed' = (changed \/ DeleteLineIn(lines, n).changed)
    /\ op' = [name |-> "DeleteLine", arg |-> n]
    /\ UNCHANGED <<pos, perTab, canvasW, canvasH, renderVars, spinVars>>

Delete ==
    LET y == DataY
        line == MapGet(lines, y)
        lineLen == Len(line)
        x == DataX.x
    IN  /\ IF y \notin DOMAIN lines \/ lineLen = 0 \/ (lineLen = 1 /\ IsSpace(line[1]))
           THEN lines' = DeleteLineIn(lines, y).ls
           ELSE IF DataX.err \/ x > lineLen - 1
           THEN LET cut == MapPut(lines, y, Take(line, x))
                IN  IF (y + 1) \in DOMAIN lines /\ Len(lines[y + 1]) > 0
                    THEN lines' = DeleteLineIn(
                                    MapPut(lines, y, Take(line, x) \o lines[y + 1]),
                                    y + 1).ls
                    ELSE lines' = cut
           ELSE lines' = MakeConsistent(
                           MapPut(lines, y, Take(line, x) \o Drop(line, x + 1)))
        /\ changed' = TRUE
        /\ op' = [name |-> "Delete", arg |-> y]
        /\ UNCHANGED <<pos, perTab, canvasW, canvasH, renderVars, spinVars>>

DeleteRestOfLine ==
    LET y == DataY
        x == DataX.x
    IN  /\ IF DataX.err \/ y \notin DOMAIN lines \/ x > Len(MapGet(lines, y))
           THEN UNCHANGED <<lines, changed>>
           ELSE /\ lines' = MakeConsistent(MapPut(lines, y, Take(lines[y], x)))
                /\ changed' = TRUE
        /\ op' = [name |-> "DeleteRestOfLine", arg |-> y]
        /\ UNCHANGED <<pos, perTab, canvasW, canvasH, renderVars, spinVars>>

(***************************************************************************)
(* SpecDoc: a new editor, edited by the document operations while the      *)
(* cursor is moved by GoTo, Position.Down, Position.Up and SetX.           *)
(***************************************************************************)
DocChars == {"a", " "}

LoadChars == {"a", "\n"}

LoadMaxLen == 3   \* longest text given to LoadBytes

DocBounded(ls) ==
    /\ \A k \in DOMAIN ls : k >= 0 /\ k <= DocMaxKey /\ Len(ls[k]) <= DocMaxLen

InitDoc ==
    /\ lines = EmptyMap
    /\ pos = NewPosition
    /\ changed = FALSE
    /\ perTab = MaxTab
    /\ canvasW = MaxW
    /\ canvasH = MaxH
    /\ op = [name |-> "New"]
    /\ NoRender

NextDoc ==
    \/ \E d \in SeqsUpTo(LoadChars, LoadMaxLen) : LoadBytes(BytesOf(d)) /\ DocBounded(lines')
    \/ \E x \in 0..(DocMaxLen - 1) : \E n \in 0..DocMaxKey : \E r \in DocChars :
          Set(x, n, r) /\ DocBounded(lines')
    \/ \E n \in 0..DocMaxKey : \E s \in SeqsUpTo(DocChars, DocMaxLen) : SetLine(n, s)
    \/ \E n \in 0..DocMaxKey : CreateLineIfMissing(n)
    \/ \E r \in DocChars : Insert(r) /\ DocBounded(lines')
    \/ \E y \in 0..(DocMaxKey - 1) : \E r \in DocChars :
          InsertBelow(y, r) /\ DocBounded(lines')
    \/ InsertLineAbove /\ DocBounded(lines')
    \/ \E n \in 0..DocMaxKey : InsertLineBelowAt(n) /\ DocBounded(lines')
    \/ \E n \in 0..DocMaxKey : DeleteLine(n)
    \/ Delete /\ DocBounded(lines')
    \/ DeleteRestOfLine
    \/ \E t \in 0..DocMaxKey : GoTo(t)
    \/ PosDown
    \/ PosUp
    \/ \E x \in 0..DocMaxLen : PosSetX(x)

SpecDoc == InitDoc /\ [][NextDoc]_vars

\* C10: after any sequence of document-mutating operations every index in
\* [0, Len()) is a key of the lines map.  (Stated for a lines map with at
\* least one key; the empty map, for which Len() is 1, is left aside.)
DocOps == {"LoadBytes", "Set", "SetLine", "CreateLineIfMissing", "Insert",
           "InsertBelow", "InsertLineAbove", "InsertLineBelowAt", "DeleteLine",
           "Delete", "DeleteRestOfLine"}

C10_NoGaps ==
    (op.name \in DocOps /\ DOMAIN lines # {}) =>
        \A i \in 0..(EdLen - 1) : i \in DOMAIN lines

(***************************************************************************)
(* Properties of DataX and LastScreenPosition, checked under SpecPos.      *)
(***************************************************************************)
\* the screen columns taken by the first k code points of a line
RECURSIVE ExpandedWidth(_, _)
ExpandedWidth(line, k) ==
    IF k = 0 THEN 0
    ELSE ExpandedWidth(line, k - 1) + (IF line[k] = Tab THEN perTab ELSE 1)

TargetColumn == pos.sx + pos.offsetX

CurrentLine == LineRunes(DataY)

\* C5: DataX signals "position is after data" only when the target column
\* sx + offsetX is at or beyond the tab-expanded width of the current line,
\* and for every column strictly inside the expanded width (also inside the
\* expansion of a tab) it returns without error the index of the code point
\* whose expanded span covers that column.
C5_AfterDataOnlyBeyondWidth ==
    op.name = "DataX" =>
        LET width == ExpandedWidth(CurrentLine, Len(CurrentLine))
        IN  /\ op.err => TargetColumn >= width
            /\ TargetColumn < width =>
                  /\ ~op.err
                  /\ ExpandedWidth(CurrentLine, op.x) <= TargetColumn
                  /\ TargetColumn < ExpandedWidth(CurrentLine, op.x + 1)

\* C6: for a line without tabs and a target column col with
\* 0 <= col <= len(L), DataX returns col, and the error is nil exactly when
\* col < len(L).
C6_NoTabsIdentity ==
    (/\ op.name = "DataX"
     /\ CountRune(Tab, DataY) = 0
     /\ TargetColumn >= 0
     /\ TargetColumn <= Len(CurrentLine))
    => /\ op.x = TargetColumn
       /\ (~op.err) <=> (TargetColumn < Len(CurrentLine))

C6_Witness ==
    /\ op.name = "DataX"
    /\ CountRune(Tab, DataY) = 0
    /\ Len(CurrentLine) >= 2
    /\ TargetColumn = Len(CurrentLine)
    /\ op.err
    /\ op.x = 2

\* C7: LastScreenPosition(n) + 1 is the code point count plus
\* tabCount * (perTab - 1), and it is the screen column count DataX has
\* accumulated when it has walked the whole line.
C7_ScreenWidth ==
    /\ \A n \in DOMAIN lines :
          LastScreenPosition(n) + 1 =
              Len(lines[n]) + CountRune(Tab, n) * (perTab - 1)
    /\ (op.name = "DataX" /\ op.err) =>
          op.screenCounter = LastScreenPosition(DataY) + 1

C7_Witness ==
    /\ op.name = "DataX"
    /\ op.err
    /\ CountRune(Tab, DataY) >= 2
    /\ perTab >= 2
    /\ op.screenCounter > Len(CurrentLine)

(***************************************************************************)
(* Properties of GoTo, checked under SpecPos.                              *)
(***************************************************************************)
\* C8: from offsetY >= 0 and 0 <= sy < h, GoTo(y) with 0 <= y < Len() puts
\* the cursor on line y, with offsetY >= 0, offsetY <= y < offsetY + h and
\* 0 <= sy < h.
C8_GoToInRange ==
    [][(/\ op'.name = "GoTo"
        /\ op'.arg >= 0
        /\ op'.arg < EdLen
        /\ pos.offsetY >= 0
        /\ pos.sy >= 0
        /\ pos.sy < canvasH)
       => /\ pos'.offsetY + pos'.sy = op'.arg
          /\ pos'.offsetY >= 0
          /\ pos'.offsetY <= op'.arg
          /\ op'.arg < pos'.offsetY + canvasH
          /\ pos'.sy >= 0
          /\ pos'.sy < canvasH]_vars

C8_Witness ==
    /\ op.name = "GoTo"
    /\ op.branch = "scroll"
    /\ op.arg < EdLen
    /\ pos.sy > 0
    /\ pos.offsetY > 0
    /\ DataY = op.arg

\* C9: GoTo leaves offsetY unchanged when the clamped target already lies in
\* [offsetY, offsetY + h); a target below 0 is clamped to line 0, a target
\* >= Len() is clamped to Len() - 1 with reached-the-end true, and
\* reached-the-end is false for every in-range target.
C9_GoToFrameAndClamp ==
    [][op'.name = "GoTo" =>
          LET t == op'.arg
              c == IF t < 0 THEN 0 ELSE IF t >= EdLen THEN EdLen - 1 ELSE t
          IN  /\ (c >= pos.offsetY /\ c < pos.offsetY + canvasH)
                    => pos'.offsetY = pos.offsetY
              /\ t < 0 => (pos'.offsetY + pos'.sy = 0 /\ ~op'.reachedTheEnd)
              /\ t >= EdLen =>
                    (pos'.offsetY + pos'.sy = EdLen - 1 /\ op'.reachedTheEnd)
              /\ (t >= 0 /\ t < EdLen) => ~op'.reachedTheEnd]_vars


(***************************************************************************)
(* QuoteState: the lexical state carried from line to line.                *)
(***************************************************************************)
DQuote == "\""

SQuote == "'"

BlockOpen == <<"/", "*">>

BlockClose == <<"*", "/">>

\* the backtick rune, written as a named token
BT == "bt"

Backtick == <<BT>>

\* Editor.SingleLineCommentMarker
SingleLineCommentMarker(m) ==
    IF m \in {"Python", "Config", "Shell", "CMake"} THEN <<"#">>
    ELSE IF m \in {"SQL", "Lua", "Haskell", "Ada"} THEN <<"-", "-">>
    ELSE IF m \in {"Lisp", "Clojure"} THEN <<";", ";">>
    ELSE IF m = "Vim" THEN <<DQuote>>
    ELSE IF m = "Bat" THEN <<"r", "e", "m">>
    ELSE IF m = "Amber" THEN <<"!", "!">>
    ELSE IF m = "Nroff" THEN <<".", "\\", DQuote>>
    ELSE <<"/", "/">>

\* NewQuoteState
NewQuoteState ==
    [singleLineComment |-> FALSE, multiLineComment |-> FALSE,
     stoppedMultiLineComment |-> FALSE, startedMultiLineString |-> FALSE,
     backtick |-> 0, doubleQuote |-> 0, singleQuote |-> 0,
     parCount |-> 0, braCount |-> 0]

\* QuoteState.None: outside any multi-line comment or string
QNone(q) == ~q.multiLineComment /\ q.backtick = 0 /\ q.doubleQuote = 0 /\ q.singleQuote = 0

\* QuoteState.ParBraCount: the net count of ( ) and of [ ] in a line
ParBraCount(t) ==
    [par |-> Count(t, <<"(">>) - Count(t, <<")">>),
     bra |-> Count(t, <<"[">>) - Count(t, <<"]">>)]

\* QuoteState.Process: the five transitions in their order of precedence,
\* then the counters for a line of code outside comments and strings
Process(q, t, marker) ==
    LET b == [q EXCEPT !.singleLineComment = FALSE,
                       !.startedMultiLineString = FALSE,
                       !.stoppedMultiLineComment = FALSE]
        inComment == q.multiLineComment
        inString == q.backtick > 0
        odd == (Count(t, Backtick) % 2) # 0
    IN  IF ~inComment /\ ~inString
           /\ (HasPrefix(t, marker) \/ (HasPrefix(t, BlockOpen) /\ HasSuffix(t, BlockClose)))
        THEN [b EXCEPT !.singleLineComment = TRUE]
        ELSE IF ~inComment /\ ~inString /\ Contains(t, BlockOpen)
        THEN [b EXCEPT !.multiLineComment = TRUE]
        ELSE IF inComment /\ Contains(t, BlockClose)
        THEN [b EXCEPT !.multiLineComment = FALSE, !.stoppedMultiLineComment = TRUE]
        ELSE IF ~inComment /\ ~inString /\ odd
        THEN [b EXCEPT !.backtick = 1, !.startedMultiLineString = TRUE]
        ELSE IF inString /\ odd
        THEN [b EXCEPT !.backtick = 0]
        ELSE IF ~inComment /\ ~inString
        THEN [b EXCEPT !.parCount = q.parCount + ParBraCount(t).par,
                       !.braCount = q.braCount + ParBraCount(t).bra]
        ELSE b

\* the first loop of WriteLines: replay the lines above the first drawn line
RECURSIVE PreludeFrom(_, _, _, _)
PreludeFrom(q, i, offsetY, m) ==
    IF i >= offsetY THEN q
    ELSE LET trimmedLine == TrimSpace(Line(i))
         IN  IF m = "Vim" /\ HasPrefix(trimmedLine, <<DQuote>>)
             THEN PreludeFrom([q EXCEPT !.singleLineComment = TRUE,
                                        !.startedMultiLineString = FALSE,
                                        !.stoppedMultiLineComment = FALSE,
                                        !.backtick = 0, !.doubleQuote = 0,
                                        !.singleQuote = 0],
                              i + 1, offsetY, m)
             ELSE PreludeFrom(Process(q, trimmedLine, SingleLineCommentMarker(m)),
                              i + 1, offsetY, m)

Prelude(offsetY) == PreludeFrom(NewQuoteState, 0, offsetY, mode)

\* the docstring tracking of Python mode, in the prelude and in the row loop
PythonBlock(inCodeBlock, trimmedLine) ==
    LET dq == <<DQuote, DQuote, DQuote>>
        sq == <<SQuote, SQuote, SQuote>>
    IN  IF HasPrefix(trimmedLine, dq) /\ HasSuffix(trimmedLine, dq)
        THEN [inCodeBlock |-> FALSE, found |-> TRUE]
        ELSE IF HasPrefix(trimmedLine, sq) /\ HasSuffix(trimmedLine, sq)
        THEN [inCodeBlock |-> FALSE, found |-> TRUE]
        ELSE IF HasPrefix(trimmedLine, dq) \/ HasPrefix(trimmedLine, sq)
        THEN [inCodeBlock |-> ~inCodeBlock, found |-> TRUE]
        ELSE IF HasSuffix(trimmedLine, dq) \/ HasSuffix(trimmedLine, sq)
        THEN [inCodeBlock |-> FALSE, found |-> TRUE]
        ELSE [inCodeBlock |-> inCodeBlock, found |-> FALSE]

IsFence(line) == HasPrefix(line, <<"~", "~", "~">>) \/ HasPrefix(line, <<BT, BT, BT>>)

\* the switch on e.mode before the prelude, with a fence setting the flag
\* where the code toggles it
RECURSIVE CodeBlockFrom_Set(_, _, _, _)
CodeBlockFrom_Set(inCodeBlock, i, fromline, m) ==
    IF i >= fromline THEN inCodeBlock
    ELSE IF m = "Markdown"
    THEN CodeBlockFrom_Set(IF IsFence(Line(i)) THEN TRUE ELSE inCodeBlock,
                           i + 1, fromline, m)
    ELSE IF m = "Python"
    THEN CodeBlockFrom_Set(PythonBlock(inCodeBlock, TrimSpace(Line(i))).inCodeBlock,
                           i + 1, fromline, m)
    ELSE inCodeBlock

\* the switch on e.mode before the prelude: is fromline inside a code block?
RECURSIVE CodeBlockFrom(_, _, _, _)
CodeBlockFrom(inCodeBlock, i, fromline, m) ==
    IF i >= fromline THEN inCodeBlock
    ELSE IF m = "Markdown"
    THEN CodeBlockFrom(IF IsFence(Line(i)) THEN ~inCodeBlock ELSE inCodeBlock,
                       i + 1, fromline, m)
    ELSE IF m = "Python"
    THEN CodeBlockFrom(PythonBlock(inCodeBlock, TrimSpace(Line(i))).inCodeBlock,
                       i + 1, fromline, m)
    ELSE inCodeBlock


\* Editor.ChopLine: the byte string shown of a line, for the viewport
ChopLine(line, viewportWidth) ==
    LET all == BytesOf(line)
        scrolled == IF Len(line) > pos.offsetX
                    THEN SubSeq(all, pos.offsetX + 1, Len(all))
                    ELSE <<>>
    IN  IF Len(scrolled) >= viewportWidth
        THEN SubSeq(scrolled, 1, viewportWidth)
        ELSE scrolled

\* handleManPageEscape: ^H pops the last rune; popping from nothing panics
RECURSIVE ManEscapeFrom(_, _, _)
ManEscapeFrom(s, i, lineRunes) ==
    IF i > Len(s) THEN [runes |-> lineRunes, panic |-> FALSE]
    ELSE IF s[i] = BS
    THEN IF Len(lineRunes) = 0
         THEN [runes |-> lineRunes, panic |-> TRUE]
         ELSE ManEscapeFrom(s, i + 1, SubSeq(lineRunes, 1, Len(lineRunes) - 1))
    ELSE ManEscapeFrom(s, i + 1, Append(lineRunes, s[i]))

handleManPageEscape(s) == ManEscapeFrom(s, 1, <<>>)

\* a cell of the canvas: the rune and the class of its foreground color
Cell(r, fg) == [r |-> r, fg |-> fg, bg |-> "Background"]

\* the search highlighting of the rune at index i (from 1) of ra, where
\* matchForAnotherN cells of a match found before are still to be colored, in
\* which every rune of the term that follows an earlier match starts a match
SearchStep_Restart(ra, i, matchForAnotherN) ==
    LET letter == ra.runes[i]
        fg0 == IF letter = " " THEN "Foreground" ELSE ra.attrs[i]
        found == Len(searchTerm) > 0 /\ MatchAt(ra.runes, searchTerm, i)
    IN  [fg |-> IF matchForAnotherN > 0 \/ found THEN "SearchHighlight" ELSE fg0,
         matchForAnotherN |-> IF found THEN Len(searchTerm) - 1
                              ELSE IF matchForAnotherN > 0 THEN matchForAnotherN - 1
                              ELSE 0]

\* the search highlighting in which a cell of a match takes the search color
\* unless it has it, and the foreground color if it has
SearchStep_Toggle(ra, i, matchForAnotherN) ==
    LET letter == ra.runes[i]
        fg0 == IF letter = " " THEN "Foreground" ELSE ra.attrs[i]
        found == /\ matchForAnotherN = 0
                 /\ Len(searchTerm) > 0
                 /\ MatchAt(ra.runes, searchTerm, i)
        hl == IF ra.attrs[i] = "SearchHighlight" THEN "Foreground" ELSE "SearchHighlight"
    IN  [fg |-> IF matchForAnotherN > 0 \/ found THEN hl ELSE fg0,
         matchForAnotherN |-> IF matchForAnotherN > 0 THEN matchForAnotherN - 1
                              ELSE IF found THEN Len(searchTerm) - 1
                              ELSE 0]

\* the search highlighting of the rune at index i (from 1) of ra, where
\* matchForAnotherN cells of a match found before are still to be colored: the
\* foreground color of the cell and the new matchForAnotherN
SearchStep(ra, i, matchForAnotherN) ==
    LET letter == ra.runes[i]
        fg0 == IF letter = " " THEN "Foreground" ELSE ra.attrs[i]
        found == /\ matchForAnotherN = 0
                 /\ Len(searchTerm) > 0
                 /\ MatchAt(ra.runes, searchTerm, i)
    IN  [fg |-> IF matchForAnotherN > 0 \/ found THEN "SearchHighlight" ELSE fg0,
         matchForAnotherN |-> IF matchForAnotherN > 0 THEN matchForAnotherN - 1
                              ELSE IF found THEN Len(searchTerm) - 1
                              ELSE 0]

\* the cell or cells written for a rune, in the color fg, and the counters
DrawRune(letter, fg, st) ==
    IF letter = Tab
    THEN [st EXCEPT !.cells = st.cells \o [k \in 1..perTab |-> Cell(" ", fg)],
                    !.writes = st.writes + 1,
                    !.lineRuneCount = st.lineRuneCount + perTab,
                    !.lineStringCount = st.lineStringCount + perTab]
    ELSE IF st.lineRuneCount < canvasW
    THEN [st EXCEPT !.cells = Append(st.cells,
                                     Cell(IF IsControl(letter) THEN ControlRuneReplacement
                                          ELSE letter, fg)),
                    !.writes = st.writes + 1,
                    !.lineRuneCount = st.lineRuneCount + 1,
                    !.lineStringCount =
                        st.lineStringCount
                        + ByteLen(IF IsControl(letter) THEN ControlRuneReplacement ELSE letter)]
    ELSE st

\* the rune at index i after its search highlighting step
DrawStep(ra, i, st, step) ==
    DrawRune(ra.runes[i], step.fg, [st EXCEPT !.matchForAnotherN = step.matchForAnotherN])

\* the loop over runesAndAttributes: search highlighting and the cells written.
\* ra is the runes and their attributes, i the rune index (from 1), st the
\* loop's variables
RECURSIVE DrawRunes(_, _, _)
DrawRunes(ra, i, st) ==
    IF i > Len(ra.runes) THEN st
    ELSE IF st.skipX > 0
    THEN DrawRunes(ra, i + 1, [st EXCEPT !.skipX = st.skipX - 1])
    ELSE DrawRunes(ra, i + 1, DrawStep(ra, i, st, SearchStep(ra, i, st.matchForAnotherN)))


(***************************************************************************)
(* The per-mode coloring of one line (the switch on e.mode of WriteLines). *)
(* A colored line is its runes and the class of color they are given.      *)
(***************************************************************************)
Colored(runes, attr) == [runes |-> runes, attr |-> attr]

\* strings.LastIndex, from 0, or -1
LastIndex(s, sub) ==
    LET hits == {i \in 1..(Len(s) + 1) : MatchAt(s, sub, i)}
    IN  IF hits = {} THEN -1 ELSE Max(hits) - 1

\* markdownHighlight: a line starting with a fence toggles the code block
markdownHighlight(line, inCodeBlock) ==
    [colored |-> Colored(line, "markdown"), ok |-> TRUE, codeBlockFound |-> IsFence(line)]

\* gitHighlight
gitHighlight(line) == Colored(line, "git")

\* the result of the switch: the colored line, whether highlighting is done,
\* and the variables the branch assigns
Branch(colored, done, t, q, inCodeBlock, panic) ==
    [colored |-> colored, doneHighlighting |-> done, trimmedLine |-> t, q |-> q,
     inCodeBlock |-> inCodeBlock, panic |-> panic]

\* a branch that colors a line as a comment or a string when it starts with
\* one of the given markers, with the syntax package otherwise
MarkerBranch(line, t, markers, hit, q, inCodeBlock) ==
    IF \E m \in markers : HasPrefix(t, m)
    THEN Branch(hit, TRUE, t, q, inCodeBlock, FALSE)
    ELSE Branch(Colored(line, "syntax"), TRUE, t, q, inCodeBlock, FALSE)

\* the branch of Lisp, Clojure and Vim with the line colored by the branch
\* whenever it has the marker
PairedBranch_AtLeastOnce(line, t, marker, prefix, q, inCodeBlock) ==
    IF Count(t, marker) >= 1
    THEN Branch(IF HasPrefix(t, prefix)
                THEN Colored(line, "MultiLineComment")
                ELSE Colored(line, "syntax+MultiLineComment"),
                TRUE, t, q, inCodeBlock, FALSE)
    ELSE Branch(Colored(line, "syntax"), FALSE, t, q, inCodeBlock, FALSE)

\* the branch of Lisp and Clojure (marker ";;", prefix ";") and of Vim: a
\* line with one marker is colored as a comment, the whole line when it
\* starts with the prefix, else from the marker on; any other line is left
\* to the code after the switch
PairedBranch(line, t, marker, prefix, q, inCodeBlock) ==
    IF Count(t, marker) = 1
    THEN Branch(IF HasPrefix(t, prefix)
                THEN Colored(line, "MultiLineComment")
                ELSE Colored(line, "syntax+MultiLineComment"),
                TRUE, t, q, inCodeBlock, FALSE)
    ELSE Branch(Colored(line, "syntax"), FALSE, t, q, inCodeBlock, FALSE)

\* the switch, with t the line trimmed on both sides
ModeSwitchOn(m, line, trimmedLine, t, q, inCodeBlock) ==
    LET marker == SingleLineCommentMarker(m)
        syn == Colored(line, "syntax")
    IN  CASE m = "Git" ->
                Branch(gitHighlight(line), TRUE, trimmedLine, q, inCodeBlock, FALSE)
          [] m = "ManPage" ->
                Branch(Colored(handleManPageEscape(line).runes, "man"), TRUE, trimmedLine,
                       q, inCodeBlock, handleManPageEscape(line).panic)
          [] m = "Markdown" ->
                LET h == markdownHighlight(line, inCodeBlock)
                IN  Branch(IF h.ok THEN h.colored ELSE syn, TRUE, trimmedLine, q,
                           IF h.ok /\ h.codeBlockFound THEN ~inCodeBlock ELSE inCodeBlock,
                           FALSE)
          [] m = "Python" ->
                LET b == PythonBlock(inCodeBlock, t)
                IN  Branch(IF b.inCodeBlock \/ b.found
                           THEN Colored(line, "MultiLineString") ELSE syn,
                           TRUE, t, q, b.inCodeBlock, FALSE)
          [] m \in {"Config", "Shell", "CMake", "JSON"} ->
                IF /\ ~HasPrefix(trimmedLine, marker)
                   /\ (Contains(trimmedLine, BlockOpen) \/ HasSuffix(trimmedLine, BlockClose))
                THEN Branch(Colored(line, "none"), TRUE, trimmedLine, q, inCodeBlock, FALSE)
                ELSE IF HasPrefix(trimmedLine, <<">", " ">>)
                THEN Branch(Colored(trimmedLine, "MultiLineString"), TRUE, trimmedLine, q,
                            inCodeBlock, FALSE)
                ELSE Branch(syn, TRUE, trimmedLine, q, inCodeBlock, FALSE)
          [] m \in {"StandardML", "OCaml"} ->
                IF HasPrefix(t, <<"(", "*">>) /\ HasSuffix(t, <<"*", ")">>)
                THEN Branch(Colored(t, "MultiLineComment"), TRUE, t, q, inCodeBlock, FALSE)
                ELSE Branch(syn, TRUE, t, q, inCodeBlock, FALSE)
          [] m = "Zig" ->
                MarkerBranch(line, t, {<<"/", "/", "/">>, <<"\\", "\\">>},
                             Colored(t, "MultiLineString"), q, inCodeBlock)
          [] m = "Bat" ->
                MarkerBranch(line, t, {<<"@", "r", "e", "m">>, <<"r", "e", "m">>, <<":">>},
                             Colored(line, "MultiLineComment"), q, inCodeBlock)
          [] m \in {"SQL", "Lua", "Haskell", "Ada"} ->
                MarkerBranch(line, t, {<<"-", "-">>},
                             Colored(line, "MultiLineComment"), q, inCodeBlock)
          [] m = "Amber" ->
                MarkerBranch(line, t, {<<"!", "!">>},
                             Colored(line, "MultiLineComment"), q, inCodeBlock)
          [] m = "Nroff" ->
                MarkerBranch(line, t, {<<".", "\\", DQuote>>},
                             Colored(line, "MultiLineComment"), q, inCodeBlock)
          [] m \in {"Lisp", "Clojure"} ->
                PairedBranch(line, t, <<";", ";">>, <<";">>, [q EXCEPT !.singleQuote = 0],
                             inCodeBlock)
          [] m = "Vim" ->
                PairedBranch(line, t, <<DQuote>>, <<DQuote>>, q, inCodeBlock)
          [] OTHER ->
                Branch(syn, FALSE, trimmedLine, q, inCodeBlock, FALSE)

ModeSwitch(m, line, trimmedLine, q, inCodeBlock) ==
    ModeSwitchOn(m, line, trimmedLine, TrimSpace(line), q, inCodeBlock)

\* the prefixes of the preprocessor lines colored as strings
Preprocessor ==
    {<<"#", "i", "f">>, <<"#", "e", "l", "s", "e">>, <<"#", "e", "n", "d", "i", "f">>,
     <<"#", "d", "e", "f", "i", "n", "e">>, <<"#", "p", "r", "a", "g", "m", "a">>}

\* the coloring of a line the generic machine has processed (q is the state
\* after q.Process)
GenericColor(m, line, t, q) ==
    LET marker == SingleLineCommentMarker(m)
        syn == Colored(line, "syntax")
    IN  IF m = "Python" /\ q.startedMultiLineString
        THEN Colored(line, "MultiLineString")
        ELSE IF ~q.multiLineComment /\ \E pre \in Preprocessor : HasPrefix(t, pre)
        THEN Colored(line, "MultiLineString")
        ELSE IF ~HasPrefix(t, marker) /\ HasSuffix(t, BlockClose) /\ ~Contains(t, BlockOpen)
        THEN Colored(line, "MultiLineComment")
        ELSE IF ~HasPrefix(t, marker) /\ LastIndex(t, BlockOpen) > LastIndex(t, BlockClose)
        THEN syn
        ELSE IF /\ ~HasPrefix(t, marker)
                /\ (q.multiLineComment \/ q.stoppedMultiLineComment)
                /\ ~Contains(line, <<DQuote, "/", "*">>)
                /\ ~Contains(line, <<"*", "/", DQuote>>)
                /\ ~HasPrefix(t, <<"#">>)
                /\ ~HasPrefix(t, <<"/", "/">>)
        THEN Colored(line, "MultiLineComment")
        ELSE IF q.singleLineComment \/ q.stoppedMultiLineComment
        THEN syn
        ELSE IF ~q.startedMultiLineString /\ q.backtick > 0
        THEN Colored(line, "MultiLineString")
        ELSE IF m \notin {"HTML", "XML"} /\ Contains(line, <<"-", ">">>)
        THEN Colored(line, "syntax+arrow")
        ELSE syn


(***************************************************************************)
(* One row of WriteLines.                                                  *)
(***************************************************************************)
\* tout.Extract: the runes of a colored line, each with its attribute
Extract(colored) ==
    [runes |-> colored.runes, attrs |-> [i \in 1..Len(colored.runes) |-> colored.attr]]

\* the palette of the rainbow colors
RainbowParenColors == <<"rainbow0", "rainbow1">>

PaletteSize == Len(RainbowParenColors)

\* the palette color of a depth
RainbowColor(depth) == RainbowParenColors[(depth % PaletteSize) + 1]

\* rainbowParen: color the brackets by depth, ( ) by parCount and [ ] by
\* braCount: an open bracket by the depth, which then grows by one; a close
\* bracket by the depth after it has shrunk by one; a close bracket without an
\* open one ends the walk with errUnmatchedParenthesis
RECURSIVE rainbowParen(_, _, _, _)
rainbowParen(parCount, braCount, ra, i) ==
    IF i > Len(ra.runes) THEN [ra |-> ra, err |-> FALSE]
    ELSE IF ra.runes[i] = "("
    THEN rainbowParen(parCount + 1, braCount,
                      [ra EXCEPT !.attrs[i] = RainbowColor(parCount)], i + 1)
    ELSE IF ra.runes[i] = "["
    THEN rainbowParen(parCount, braCount + 1,
                      [ra EXCEPT !.attrs[i] = RainbowColor(braCount)], i + 1)
    ELSE IF ra.runes[i] = ")"
    THEN IF parCount - 1 < 0 THEN [ra |-> ra, err |-> TRUE]
         ELSE rainbowParen(parCount - 1, braCount,
                           [ra EXCEPT !.attrs[i] = RainbowColor(parCount - 1)], i + 1)
    ELSE IF ra.runes[i] = "]"
    THEN IF braCount - 1 < 0 THEN [ra |-> ra, err |-> TRUE]
         ELSE rainbowParen(parCount, braCount - 1,
                           [ra EXCEPT !.attrs[i] = RainbowColor(braCount - 1)], i + 1)
    ELSE rainbowParen(parCount, braCount, ra, i + 1)

\* the variables of the loop over the runes of a row, before the loop
RowStart ==
    [skipX |-> pos.offsetX, matchForAnotherN |-> 0, cells |-> <<>>, writes |-> 0,
     lineRuneCount |-> 0, lineStringCount |-> 0]

\* a row that has no runesAndAttributes
NoRunes == [runes |-> <<>>, attrs |-> <<>>]

\* what a row does: the cells it writes from column 0, what it prints, its
\* counters, the lexical state after it and the calls of q.Process it made;
\* for a highlighted row also its runesAndAttributes before the loop over
\* them, whether rainbowParen was called and whether it found a close bracket
\* without an open one
RowResult(path, st, out, q, inCodeBlock, processCalls, panic) ==
    [path |-> path, cells |-> st.cells, writes |-> st.writes,
     ra |-> NoRunes, rainbow |-> FALSE, unmatched |-> FALSE,
     lineRuneCount |-> st.lineRuneCount, lineStringCount |-> st.lineStringCount,
     out |-> out, q |-> q, inCodeBlock |-> inCodeBlock,
     processCalls |-> processCalls, panic |-> panic]

\* the row when syntax.AsText fails, with the chopped line written to the
\* canvas as well as printed
RowAsTextError_Drawn(line, q, inCodeBlock) ==
    LET screenLine == ChopLine(line, canvasW)
    IN  RowResult("asTextError",
                  [RowStart EXCEPT !.cells = [k \in 1..Len(RunesOf(screenLine)) |->
                                                 Cell(RunesOf(screenLine)[k], "Foreground")],
                                   !.writes = 1,
                                   !.lineRuneCount = Len(RunesOf(screenLine)),
                                   !.lineStringCount = Len(screenLine)],
                  <<RunesOf(screenLine)>>, q, inCodeBlock, 0, FALSE)

\* the row when syntax.AsText fails: the chopped line is printed, not drawn
RowAsTextError(line, q, inCodeBlock) ==
    LET screenLine == ChopLine(line, canvasW)
    IN  RowResult("asTextError",
                  [RowStart EXCEPT !.lineRuneCount = Len(RunesOf(screenLine)),
                                   !.lineStringCount = Len(screenLine)],
                  <<RunesOf(screenLine)>>, q, inCodeBlock, 0, FALSE)

\* the end of a highlighted row where errUnmatchedParenthesis sets only
\* parCount to zero
RowDrawn_ResetPar(rp, rainbow, q, inCodeBlock, path, processCalls) ==
    [RowResult(path, DrawRunes(rp.ra, 1, RowStart), <<>>,
               IF rp.err THEN [q EXCEPT !.parCount = 0] ELSE q,
               inCodeBlock, processCalls, FALSE)
     EXCEPT !.ra = rp.ra, !.rainbow = rainbow, !.unmatched = rp.err]

\* the end of a highlighted row: the cells of the runes and their attributes,
\* and the counters set to zero after errUnmatchedParenthesis
RowDrawn(rp, rainbow, q, inCodeBlock, path, processCalls) ==
    [RowResult(path, DrawRunes(rp.ra, 1, RowStart), <<>>,
               IF rp.err THEN [q EXCEPT !.parCount = 0, !.braCount = 0] ELSE q,
               inCodeBlock, processCalls, FALSE)
     EXCEPT !.ra = rp.ra, !.rainbow = rainbow, !.unmatched = rp.err]

\* rainbow parentheses that start from the running counters, this line's
\* brackets counted twice
RowRainbow_NoSubtract(colored, t, q, inCodeBlock, path, processCalls) ==
    IF rainbowParenthesis /\ QNone(q) /\ ~q.singleLineComment
    THEN RowDrawn(rainbowParen(q.parCount, q.braCount, Extract(colored), 1),
                  TRUE, q, inCodeBlock, path, processCalls)
    ELSE RowDrawn([ra |-> Extract(colored), err |-> FALSE], FALSE, q, inCodeBlock, path,
                  processCalls)

\* rainbow parentheses, outside of comments and strings, for a colored line
RowRainbow(colored, t, q, inCodeBlock, path, processCalls) ==
    IF rainbowParenthesis /\ QNone(q) /\ ~q.singleLineComment
    THEN RowDrawn(rainbowParen(q.parCount - ParBraCount(t).par,
                               q.braCount - ParBraCount(t).bra, Extract(colored), 1),
                  TRUE, q, inCodeBlock, path, processCalls)
    ELSE RowDrawn([ra |-> Extract(colored), err |-> FALSE], FALSE, q, inCodeBlock, path,
                  processCalls)

\* a row the switch has not colored: q is the state after q.Process
RowGeneric(line, t, q, inCodeBlock) ==
    RowRainbow(GenericColor(mode, line, t, q), t, q, inCodeBlock, "generic", 1)

\* a row after the switch b, from the state q before the row
RowAfterSwitch(b, line, q, inCodeBlock) ==
    IF b.panic
    THEN RowResult("panic", RowStart, <<>>, q, inCodeBlock, 0, TRUE)
    ELSE IF b.doneHighlighting
    THEN RowRainbow(b.colored, b.trimmedLine, b.q, b.inCodeBlock, "override", 0)
    ELSE RowGeneric(line, TrimSpace(line),
                    Process(b.q, TrimSpace(line), SingleLineCommentMarker(mode)),
                    b.inCodeBlock)

\* the row when syntax highlighting is on and syntax.AsText succeeds
RowHighlighted(line, trimmedLine, q, inCodeBlock) ==
    RowAfterSwitch(ModeSwitch(mode, line, trimmedLine, q, inCodeBlock), line, q, inCodeBlock)

\* the row when syntax highlighting is off: the chopped line in one color
\* the plain row of an escaped line
RowPlainOf(esc, q, inCodeBlock) ==
    IF esc.panic
    THEN RowResult("panic", RowStart, <<>>, q, inCodeBlock, 0, TRUE)
    ELSE LET screenLine == ChopLine(esc.runes, canvasW)
         IN  RowResult("plain",
                       [RowStart EXCEPT !.cells = [k \in 1..Len(RunesOf(screenLine)) |->
                                                      Cell(RunesOf(screenLine)[k], "Foreground")],
                                        !.writes = 1,
                                        !.lineRuneCount = Len(RunesOf(screenLine)),
                                        !.lineStringCount = Len(screenLine)],
                       <<>>, q, inCodeBlock, 0, FALSE)

\* the row when syntax highlighting is off: the chopped line in one color
RowPlain(line, q, inCodeBlock) ==
    RowPlainOf(IF mode = "ManPage" THEN handleManPageEscape(line)
               ELSE [runes |-> line, panic |-> FALSE],
               q, inCodeBlock)

\* the body of the loop over the rows, for row y of a call from offsetY
\* the row of a line trimmed on the right: with its tabs expanded (line) and
\* trimmed on the left (trimmedLine)
RowOf(line, trimmedLine, q, inCodeBlock, asTextError) ==
    IF syntaxHighlight /\ ~envNoColor
    THEN IF asTextError THEN RowAsTextError(line, q, inCodeBlock)
         ELSE RowHighlighted(line, trimmedLine, q, inCodeBlock)
    ELSE RowPlain(line, q, inCodeBlock)

\* the body of the loop over the rows, for row y of a call from offsetY
Row(offsetY, y, q, inCodeBlock, asTextError) ==
    RowOf(ExpandTabs(TrimRight(Line(y + offsetY)), perTab),
          TrimLeft(TrimRight(Line(y + offsetY))), q, inCodeBlock, asTextError)

\* the canvas after a row: its cells from column 0, then blanks from column
\* lineRuneCount up to the width; cells beyond the width are not kept
DrawRow(cv, y, row) ==
    LET cellAt(x) ==
            IF x < Len(row.cells) THEN row.cells[x + 1]
            ELSE IF x >= row.lineRuneCount THEN Cell(" ", "Foreground")
            ELSE cv[<<x, y>>]
        drawn == {x \in 0..(canvasW - 1) :
                     x < Len(row.cells) \/ x >= row.lineRuneCount \/ <<x, y>> \in DOMAIN cv}
    IN  [c \in DOMAIN cv \cup {<<x, y>> : x \in drawn} |->
            IF c[2] = y /\ c[1] \in drawn THEN cellAt(c[1]) ELSE cv[c]]

\* the number of blanks written after a row
Padding(row) == IF row.lineRuneCount < canvasW THEN canvasW - row.lineRuneCount ELSE 0


(***************************************************************************)
(* WriteLines, called by goroutine p.                                      *)
(***************************************************************************)
edVars == <<lines, pos, changed, perTab, canvasW, canvasH, op, mode, syntaxHighlight,
            rainbowParenthesis, envNoColor, searchTerm, spinVars>>

\* the call: the next thing the goroutine does is to lock the mutex
WL_Call(p, fromline, toline) ==
    /\ frame[p].pc = "idle"
    /\ frame' = [frame EXCEPT ![p] = [IdleFrame EXCEPT !.pc = "lock",
                                                       !.fromline = fromline,
                                                       !.toline = toline]]
    /\ UNCHANGED <<edVars, writeLinesMutex, canvas, stdout>>

\* writeLinesMutex.Lock() without the wait for the mutex to be free
WL_Lock_NoWait(p) ==
    /\ frame[p].pc = "lock"
    /\ writeLinesMutex' = p
    /\ frame' = [frame EXCEPT ![p].pc = "check"]
    /\ UNCHANGED <<edVars, canvas, stdout>>

\* writeLinesMutex.Lock(): blocks while another call holds the mutex
WL_Lock(p) ==
    /\ frame[p].pc = "lock"
    /\ writeLinesMutex = 0
    /\ writeLinesMutex' = p
    /\ frame' = [frame EXCEPT ![p].pc = "check"]
    /\ UNCHANGED <<edVars, canvas, stdout>>

\* the range check with > for >=
WL_Begin_Greater(p) ==
    LET f == frame[p]
    IN  /\ f.pc = "check"
        /\ IF f.fromline > f.toline
           THEN frame' = [frame EXCEPT ![p].pc = "unlock", ![p].ret = "range"]
           ELSE frame' = [frame EXCEPT ![p].pc = "row",
                              ![p].inCodeBlock = CodeBlockFrom(FALSE, 0, f.fromline, mode),
                              ![p].q = Prelude(f.fromline),
                              ![p].replayed = f.fromline]
        /\ UNCHANGED <<edVars, writeLinesMutex, canvas, stdout>>

\* from the range check to the first row: the code block flag of Markdown and
\* Python, and the replay of the lines above fromline
WL_Begin(p) ==
    LET f == frame[p]
    IN  /\ f.pc = "check"
        /\ IF f.fromline >= f.toline
           THEN frame' = [frame EXCEPT ![p].pc = "unlock", ![p].ret = "range"]
           ELSE frame' = [frame EXCEPT ![p].pc = "row",
                              ![p].inCodeBlock = CodeBlockFrom(FALSE, 0, f.fromline, mode),
                              ![p].q = Prelude(f.fromline),
                              ![p].replayed = f.fromline]
        /\ UNCHANGED <<edVars, writeLinesMutex, canvas, stdout>>

\* the bytes of the runes of a sequence of cells
RECURSIVE SumBytes(_)
SumBytes(cells) == IF Len(cells) = 0 THEN 0 ELSE ByteLen(cells[1].r) + SumBytes(Tail(cells))

\* the bytes less the code points of the text of a row: of its cells for a
\* highlighted row, of the chopped line that is written or printed otherwise
RowSpread(row) ==
    IF row.path \in {"override", "generic"} THEN SumBytes(row.cells) - Len(row.cells)
    ELSE row.lineStringCount - row.lineRuneCount

\* the frame after a row, where expandedRunes tells of the last row only
WL_RowDone_LastRow(p, f, row) ==
    IF row.panic
    THEN /\ frame' = [frame EXCEPT ![p].pc = "unlock", ![p].ret = "panic",
                                   ![p].path = "panic", ![p].processCalls = 0]
         /\ UNCHANGED <<canvas, stdout>>
    ELSE /\ frame' = [frame EXCEPT
               ![p].y = f.y + 1,
               ![p].q = row.q,
               ![p].inCodeBlock = row.inCodeBlock,
               ![p].expandedRunes =
                   (row.lineStringCount - row.lineRuneCount > 2),
               ![p].writes = f.writes + row.writes + Padding(row),
               ![p].path = row.path,
               ![p].processCalls = row.processCalls,
               ![p].cells = row.cells,
               ![p].lineRuneCount = row.lineRuneCount,
               ![p].lineStringCount = row.lineStringCount,
               ![p].out = row.out,
               ![p].ra = row.ra,
               ![p].rainbow = row.rainbow,
               ![p].unmatched = row.unmatched,
               ![p].unmatchedRows = f.unmatchedRows + (IF row.unmatched THEN 1 ELSE 0),
               ![p].wideRows = f.wideRows + (IF RowSpread(row) > 2 THEN 1 ELSE 0),
               ![p].qRow = f.q,
               ![p].onlyHighlighted =
                   f.onlyHighlighted /\ row.path \in {"override", "generic"}]
         /\ canvas' = DrawRow(canvas, f.y, row)
         /\ stdout' = stdout \o row.out

\* the frame, the canvas and the output after a row
WL_RowDone(p, f, row) ==
    IF row.panic
    THEN /\ frame' = [frame EXCEPT ![p].pc = "unlock", ![p].ret = "panic",
                                   ![p].path = "panic", ![p].processCalls = 0]
         /\ UNCHANGED <<canvas, stdout>>
    ELSE /\ frame' = [frame EXCEPT
               ![p].y = f.y + 1,
               ![p].q = row.q,
               ![p].inCodeBlock = row.inCodeBlock,
               ![p].expandedRunes =
                   f.expandedRunes \/ (row.lineStringCount - row.lineRuneCount > 2),
               ![p].writes = f.writes + row.writes + Padding(row),
               ![p].path = row.path,
               ![p].processCalls = row.processCalls,
               ![p].cells = row.cells,
               ![p].lineRuneCount = row.lineRuneCount,
               ![p].lineStringCount = row.lineStringCount,
               ![p].out = row.out,
               ![p].ra = row.ra,
               ![p].rainbow = row.rainbow,
               ![p].unmatched = row.unmatched,
               ![p].unmatchedRows = f.unmatchedRows + (IF row.unmatched THEN 1 ELSE 0),
               ![p].wideRows = f.wideRows + (IF RowSpread(row) > 2 THEN 1 ELSE 0),
               ![p].qRow = f.q,
               ![p].onlyHighlighted =
                   f.onlyHighlighted /\ row.path \in {"override", "generic"}]
         /\ canvas' = DrawRow(canvas, f.y, row)
         /\ stdout' = stdout \o row.out

\* one turn of the loop over the rows; a panic leaves the function at once
WL_Row(p, asTextError) ==
    /\ frame[p].pc = "row"
    /\ frame[p].y < frame[p].toline - frame[p].fromline
    /\ (asTextError => syntaxHighlight /\ ~envNoColor)
    /\ WL_RowDone(p, frame[p],
                  Row(frame[p].fromline, frame[p].y, frame[p].q, frame[p].inCodeBlock,
                      asTextError))
    /\ UNCHANGED <<edVars, writeLinesMutex>>

\* after the last row: the result of the call
WL_Return(p) ==
    LET f == frame[p]
    IN  /\ f.pc = "row"
        /\ f.y >= f.toline - f.fromline
        /\ frame' = [frame EXCEPT ![p].pc = "unlock",
                           ![p].ret = IF f.expandedRunes THEN "unicode" ELSE "nil"]
        /\ UNCHANGED <<edVars, writeLinesMutex, canvas, stdout>>

\* the deferred writeLinesMutex.Unlock()
WL_Unlock(p) ==
    /\ frame[p].pc = "unlock"
    /\ writeLinesMutex' = 0
    /\ frame' = [frame EXCEPT ![p].pc = "done"]
    /\ UNCHANGED <<edVars, canvas, stdout>>


(***************************************************************************)
(* SpecRender: one goroutine draws a document of a few lines, in each of a *)
(* number of modes.                                                        *)
(***************************************************************************)
RenderMaxLines == 2   \* most lines of a document that is drawn

RenderModes == {"Go", "Git", "Markdown", "Python", "Config", "SQL", "Lisp", "Vim", "ManPage"}

\* lines that meet the branches of the mode
SampleLines(m) ==
    {<<"/", "*">>, <<"*", "/">>, <<"a", "(">>}
    \cup (CASE m = "Go" -> {<<BT>>, <<")">>, <<WideRune>>, <<"/", "/", "(">>}
            [] m = "Markdown" -> {<<BT, BT, BT>>}
            [] m = "Python" -> {<<DQuote, DQuote, DQuote>>}
            [] m = "Config" -> {<<">", " ", Tab, "a">>, <<" ", ">", " ">>, <<" ", ">", " ", "a">>}
            [] m = "SQL" -> {<<"-", "-", "(">>}
            [] m = "Lisp" -> {<<";", ";">>}
            [] m = "Vim" -> {<<DQuote>>}
            [] m = "ManPage" -> {<<"a", BS>>, <<BS>>}
            [] OTHER -> {})

RECURSIVE DocsUpTo(_, _)
DocsUpTo(S, n) ==
    IF n = 0 THEN {<<>>}
    ELSE LET shorter == DocsUpTo(S, n - 1)
         IN  shorter \cup {Append(d, l) : d \in shorter, l \in S}

\* the document e.lines of a sequence of lines
DocOf(d) == [i \in 0..(Len(d) - 1) |-> d[i + 1]]

InitRender ==
    /\ mode \in RenderModes
    /\ \E d \in DocsUpTo(SampleLines(mode), RenderMaxLines) : Len(d) > 0 /\ lines = DocOf(d)
    /\ pos = NewPosition
    /\ changed = FALSE
    /\ perTab = MaxTab
    /\ canvasW = MaxW
    /\ canvasH = MaxH
    /\ op = [name |-> "New"]
    /\ syntaxHighlight \in BOOLEAN
    /\ envNoColor \in BOOLEAN
    /\ envNoColor => syntaxHighlight
    /\ rainbowParenthesis \in BOOLEAN
    /\ searchTerm \in {<<>>, <<"a">>}
    /\ writeLinesMutex = 0
    /\ frame = [p \in Procs |-> IdleFrame]
    /\ canvas = <<>>
    /\ stdout = <<>>
    /\ NoSpinner

NextRender ==
    \/ \E fromline \in 0..EdLen : \E toline \in 0..EdLen : WL_Call(1, fromline, toline)
    \/ WL_Lock(1)
    \/ WL_Begin(1)
    \/ \E asTextError \in BOOLEAN : WL_Row(1, asTextError)
    \/ WL_Return(1)
    \/ WL_Unlock(1)

SpecRender == InitRender /\ [][NextRender]_vars

(***************************************************************************)
(* SpecLock: every goroutine calls WriteLines on the same editor and       *)
(* canvas.                                                                 *)
(***************************************************************************)
InitLock ==
    /\ mode = "Go"
    /\ lines \in {DocOf(<<<<"a">>, <<"/", "*">>>>), DocOf(<<<<")">>, <<"a">>>>)}
    /\ pos = NewPosition
    /\ changed = FALSE
    /\ perTab = MaxTab
    /\ canvasW = MaxW
    /\ canvasH = MaxH
    /\ op = [name |-> "New"]
    /\ syntaxHighlight = TRUE
    /\ envNoColor = FALSE
    /\ rainbowParenthesis = TRUE
    /\ searchTerm = <<>>
    /\ writeLinesMutex = 0
    /\ frame = [p \in Procs |-> IdleFrame]
    /\ canvas = <<>>
    /\ stdout = <<>>
    /\ NoSpinner

NextLock ==
    \E p \in Procs :
        \/ \E fromline \in 0..1 : \E toline \in 1..2 : WL_Call(p, fromline, toline)
        \/ WL_Lock(p)
        \/ WL_Begin(p)
        \/ WL_Row(p, FALSE)
        \/ WL_Return(p)
        \/ WL_Unlock(p)

SpecLock == InitLock /\ [][NextLock]_vars


(***************************************************************************)
(* Properties of WriteLines.                                               *)
(***************************************************************************)
\* the part of the lexical state that is carried from line to line
LexState(q) ==
    [multiLineComment |-> q.multiLineComment, multiLineString |-> q.backtick > 0,
     parCount |-> q.parCount, braCount |-> q.braCount]

\* C1: the lexical state entering line k is the same whether the lines above
\* k were all replayed by the first loop (a call with fromline = k) or partly
\* advanced by the loop over the rows (a call with fromline = j <= k that has
\* drawn the rows j..k-1).  Stated for calls whose rows were all highlighted,
\* without rainbow parentheses.
C1_CheckpointResumable ==
    \A p \in Procs :
        (/\ frame[p].pc = "row"
         /\ frame[p].onlyHighlighted
         /\ ~rainbowParenthesis)
        => LexState(frame[p].q) = LexState(Prelude(frame[p].fromline + frame[p].y))

\* C2: every row drawn on the highlighted path, a row colored by the override
\* of a mode included, has passed its trimmed line to q.Process exactly once.
C2_ProcessOncePerRow ==
    \A p \in Procs :
        frame[p].path \in {"override", "generic"} => frame[p].processCalls = 1

\* a call between its Lock and its Unlock of writeLinesMutex
InWriteLines(p) == frame[p].pc \in {"check", "row", "unlock"}

\* C3: at most one call of WriteLines is between locking and unlocking
\* writeLinesMutex, and that call holds the mutex; no two calls are in the
\* loop over the rows at once.
C3_MutualExclusion ==
    \A p \in Procs :
        /\ InWriteLines(p) => writeLinesMutex = p
        /\ \A o \in Procs \ {p} : ~(InWriteLines(p) /\ InWriteLines(o))

\* a second caller waits for the mutex while the first is between two rows
C3_Witness ==
    \E p \in Procs : \E o \in Procs \ {p} :
        /\ frame[p].pc = "row"
        /\ frame[p].y = 1
        /\ frame[p].toline - frame[p].fromline = 2
        /\ frame[o].pc = "lock"

\* C4: a call with fromline >= toline returns the range error, having replayed
\* no line and written no cell; a call with fromline < toline never returns
\* the range error.
C4_RangeError ==
    \A p \in Procs :
        LET f == frame[p]
        IN  /\ (f.pc \in {"unlock", "done"} /\ f.fromline >= f.toline) =>
                   /\ f.ret = "range"
                   /\ f.replayed = 0
                   /\ f.writes = 0
                   /\ f.y = 0
                   /\ DOMAIN canvas = {}
                   /\ stdout = <<>>
            /\ f.fromline < f.toline => f.ret # "range"

\* a call with fromline = toline, below lines that a replay would read, has
\* returned the range error
C4_Witness ==
    \E p \in Procs :
        /\ frame[p].pc = "done"
        /\ frame[p].ret = "range"
        /\ frame[p].fromline = frame[p].toline
        /\ frame[p].fromline > 0


(***************************************************************************)
(* The WriteLines that keeps the lexical state in two flags                *)
(* (inMultiLineComment, inMultiLineString), without a mutex.               *)
(***************************************************************************)
SingleLineComment(trimmedLine, singleLineCommentMarker, inMultiLineComment, inMultiLineString) ==
    /\ ~inMultiLineComment /\ ~inMultiLineString
    /\ \/ HasPrefix(trimmedLine, singleLineCommentMarker)
       \/ (HasPrefix(trimmedLine, BlockOpen) /\ HasSuffix(trimmedLine, BlockClose))

\* MultiLineCommentStart without the test of inMultiLineString
MultiLineCommentStart_InString(trimmedLine, inMultiLineComment, inMultiLineString, inSingleLineComment) ==
    /\ ~inMultiLineComment /\ ~inSingleLineComment
    /\ Contains(trimmedLine, BlockOpen)

MultiLineCommentStart(trimmedLine, inMultiLineComment, inMultiLineString, inSingleLineComment) ==
    /\ ~inMultiLineComment /\ ~inMultiLineString /\ ~inSingleLineComment
    /\ Contains(trimmedLine, BlockOpen)

MultiLineCommentStop(trimmedLine, inMultiLineComment, inMultiLineString, inSingleLineComment) ==
    /\ inMultiLineComment /\ ~inMultiLineString /\ ~inSingleLineComment
    /\ Contains(trimmedLine, BlockClose)

MultiLineStringStart(trimmedLine, inMultiLineComment, inMultiLineString, inSingleLineComment) ==
    /\ ~inMultiLineComment /\ ~inMultiLineString /\ ~inSingleLineComment
    /\ (Count(trimmedLine, Backtick) % 2) # 0

MultiLineStringStop(trimmedLine, inMultiLineComment, inMultiLineString, inSingleLineComment) ==
    /\ ~inMultiLineComment /\ inMultiLineString /\ ~inSingleLineComment
    /\ (Count(trimmedLine, Backtick) % 2) # 0

\* the two flags before the first line
NoFlags == [inMultiLineComment |-> FALSE, inMultiLineString |-> FALSE]

\* one turn of the first loop: a switch, the first case that holds is taken
FlagsReplay(fl, trimmedLine, marker) ==
    LET c == fl.inMultiLineComment
        g == fl.inMultiLineString
    IN  IF SingleLineComment(trimmedLine, marker, c, g) THEN fl
        ELSE IF MultiLineCommentStart(trimmedLine, c, g, FALSE)
        THEN [fl EXCEPT !.inMultiLineComment = TRUE]
        ELSE IF MultiLineCommentStop(trimmedLine, c, g, FALSE)
        THEN [fl EXCEPT !.inMultiLineComment = FALSE]
        ELSE IF MultiLineStringStart(trimmedLine, c, g, FALSE)
        THEN [fl EXCEPT !.inMultiLineString = TRUE]
        ELSE IF MultiLineStringStop(trimmedLine, c, g, FALSE)
        THEN [fl EXCEPT !.inMultiLineString = FALSE]
        ELSE fl

\* the transitions one turn of the first loop takes
FlagsReplayFired(fl, trimmedLine, marker) ==
    LET c == fl.inMultiLineComment
        g == fl.inMultiLineString
    IN  IF SingleLineComment(trimmedLine, marker, c, g) THEN {"SingleLineComment"}
        ELSE IF MultiLineCommentStart(trimmedLine, c, g, FALSE) THEN {"MultiLineCommentStart"}
        ELSE IF MultiLineCommentStop(trimmedLine, c, g, FALSE) THEN {"MultiLineCommentStop"}
        ELSE IF MultiLineStringStart(trimmedLine, c, g, FALSE) THEN {"MultiLineStringStart"}
        ELSE IF MultiLineStringStop(trimmedLine, c, g, FALSE) THEN {"MultiLineStringStop"}
        ELSE {}

\* the first loop: the flags at line offset
RECURSIVE FlagsPreludeFrom(_, _, _)
FlagsPreludeFrom(fl, i, offset) ==
    IF i >= offset THEN fl
    ELSE FlagsPreludeFrom(FlagsReplay(fl, TrimSpace(Line(i)), SingleLineCommentMarker(mode)),
                          i + 1, offset)

FlagsPrelude(offset) == FlagsPreludeFrom(NoFlags, 0, offset)

\* the most transitions that one turn of the first loop took
RECURSIVE FlagsPreludeFired(_, _, _, _)
FlagsPreludeFired(fl, i, offset, most) ==
    IF i >= offset THEN most
    ELSE FlagsPreludeFired(
             FlagsReplay(fl, TrimSpace(Line(i)), SingleLineCommentMarker(mode)), i + 1, offset,
             Max({most, Cardinality(FlagsReplayFired(fl, TrimSpace(Line(i)),
                                                     SingleLineCommentMarker(mode)))}))

\* the flags after a row of the second loop, without the test that stops a
\* multi line string
FlagsRow_NoStringStop(fl, trimmedLine, marker) ==
    LET inSingleLineComment ==
            SingleLineComment(trimmedLine, marker, fl.inMultiLineComment, fl.inMultiLineString)
        g == fl.inMultiLineString
        c == IF MultiLineCommentStart(trimmedLine, fl.inMultiLineComment, g, inSingleLineComment)
             THEN TRUE
             ELSE IF MultiLineCommentStop(trimmedLine, fl.inMultiLineComment, g,
                                          inSingleLineComment)
             THEN FALSE
             ELSE fl.inMultiLineComment
        start == MultiLineStringStart(trimmedLine, c, g, inSingleLineComment)
    IN  [inMultiLineComment |-> c,
         inMultiLineString |-> IF start THEN TRUE ELSE g,
         inSingleLineComment |-> inSingleLineComment,
         newlyStartedMultiLineString |-> start,
         fired |-> (IF inSingleLineComment THEN {"SingleLineComment"} ELSE {})
                   \cup (IF c /\ ~fl.inMultiLineComment THEN {"MultiLineCommentStart"}
                         ELSE IF ~c /\ fl.inMultiLineComment THEN {"MultiLineCommentStop"}
                         ELSE {})
                   \cup (IF start THEN {"MultiLineStringStart"} ELSE {})]

\* the flags after a row of the second loop: the comment flag, then the
\* string flag from the comment flag just set
FlagsRow(fl, trimmedLine, marker) ==
    LET inSingleLineComment ==
            SingleLineComment(trimmedLine, marker, fl.inMultiLineComment, fl.inMultiLineString)
        g == fl.inMultiLineString
        c == IF MultiLineCommentStart(trimmedLine, fl.inMultiLineComment, g, inSingleLineComment)
             THEN TRUE
             ELSE IF MultiLineCommentStop(trimmedLine, fl.inMultiLineComment, g,
                                          inSingleLineComment)
             THEN FALSE
             ELSE fl.inMultiLineComment
        stop == MultiLineStringStop(trimmedLine, c, g, inSingleLineComment)
        start == ~stop /\ MultiLineStringStart(trimmedLine, c, g, inSingleLineComment)
    IN  [inMultiLineComment |-> c,
         inMultiLineString |-> IF stop THEN FALSE ELSE IF start THEN TRUE ELSE g,
         inSingleLineComment |-> inSingleLineComment,
         newlyStartedMultiLineString |-> start,
         fired |-> (IF inSingleLineComment THEN {"SingleLineComment"} ELSE {})
                   \cup (IF c /\ ~fl.inMultiLineComment THEN {"MultiLineCommentStart"}
                         ELSE IF ~c /\ fl.inMultiLineComment THEN {"MultiLineCommentStop"}
                         ELSE {})
                   \cup (IF stop THEN {"MultiLineStringStop"}
                         ELSE IF start THEN {"MultiLineStringStart"}
                         ELSE {})]


\* tabString, outside of draw mode
FlagsTabString == IF mode = "Makefile" THEN Repeat(Tab, perTab) ELSE Repeat(" ", perTab)

\* strings.Replace(line, "\t", tabString, -1)
RECURSIVE ReplaceTabs(_, _)
ReplaceTabs(s, tabString) ==
    IF Len(s) = 0 THEN <<>>
    ELSE (IF s[1] = Tab THEN tabString ELSE <<s[1]>>) \o ReplaceTabs(Tail(s), tabString)

\* the transitions the row of line n takes, when the row is colored by the flags
FlagsRowFired(fl, n, path) ==
    IF path = "generic"
    THEN FlagsRow(fl, TrimSpace(ReplaceTabs(Line(n), FlagsTabString)),
                  SingleLineCommentMarker(mode)).fired
    ELSE {}

\* the loop over charactersAndAttributes: every rune is written at counter
RECURSIVE FlagsDrawRunes(_, _, _)
FlagsDrawRunes(ra, i, st) ==
    IF i > Len(ra.runes) THEN st
    ELSE LET letter == ra.runes[i]
             fg0 == IF letter = " " THEN "Foreground" ELSE ra.attrs[i]
             found == /\ st.matchForAnotherN = 0
                      /\ Len(searchTerm) > 0
                      /\ MatchAt(ra.runes, searchTerm, i)
             fg == IF st.matchForAnotherN > 0 \/ found THEN "SearchHighlight" ELSE fg0
             n == IF st.matchForAnotherN > 0 THEN st.matchForAnotherN - 1
                  ELSE IF found THEN Len(searchTerm) - 1
                  ELSE 0
         IN  IF letter = Tab
             THEN FlagsDrawRunes(ra, i + 1,
                      [st EXCEPT !.matchForAnotherN = n,
                                 !.cells = st.cells \o [k \in 1..perTab |-> Cell(Tab, fg)],
                                 !.writes = st.writes + 1,
                                 !.lineRuneCount = st.lineRuneCount + perTab,
                                 !.lineStringCount = st.lineStringCount + perTab])
             ELSE FlagsDrawRunes(ra, i + 1,
                      [st EXCEPT !.matchForAnotherN = n,
                                 !.cells = Append(st.cells, Cell(letter, fg)),
                                 !.writes = st.writes + 1,
                                 !.lineRuneCount = st.lineRuneCount + 1,
                                 !.lineStringCount = st.lineStringCount + 1])

\* the body of the loop over the rows
FlagsRowResult(offset, y, fl, inCodeBlock, asTextError) ==
    LET line == ReplaceTabs(Line(y + offset), FlagsTabString)
        trimmedRight == TrimRight(line)
        screenLine == IF Len(trimmedRight) >= canvasW
                      THEN SubSeq(BytesOf(trimmedRight), 1, canvasW)
                      ELSE BytesOf(trimmedRight)
        shown == RunesOf(screenLine)
        start == [RowStart EXCEPT !.skipX = 0]
        printed == [start EXCEPT !.lineRuneCount = Len(shown), !.lineStringCount = Len(shown)]
        t == TrimSpace(line)
        fr == FlagsRow(fl, t, SingleLineCommentMarker(mode))
        generic == IF fr.inSingleLineComment THEN Colored(line, "syntax")
                   ELSE IF fr.inMultiLineComment THEN Colored(line, "MultiLineComment")
                   ELSE IF ~fr.newlyStartedMultiLineString /\ fr.inMultiLineString
                   THEN Colored(line, "MultiLineString")
                   ELSE Colored(line, "syntax")
        md == markdownHighlight(line, inCodeBlock)
    IN  IF syntaxHighlight /\ ~envNoColor
        THEN IF asTextError
             THEN RowResult("asTextError", printed, <<shown>>, fl, inCodeBlock, 0, FALSE)
             ELSE IF mode = "Git"
             THEN RowResult("override",
                            FlagsDrawRunes(Extract(gitHighlight(line)), 1, start),
                            <<>>, fl, inCodeBlock, 0, FALSE)
             ELSE IF mode = "Markdown"
             THEN RowResult("override",
                            FlagsDrawRunes(Extract(IF md.ok THEN md.colored
                                                   ELSE Colored(line, "syntax")), 1, start),
                            <<>>, fl,
                            IF md.ok /\ md.codeBlockFound THEN ~inCodeBlock ELSE inCodeBlock,
                            0, FALSE)
             ELSE RowResult("generic", FlagsDrawRunes(Extract(generic), 1, start), <<>>,
                            [inMultiLineComment |-> fr.inMultiLineComment,
                             inMultiLineString |-> fr.inMultiLineString],
                            inCodeBlock, 1, FALSE)
        ELSE RowResult("plain",
                       [printed EXCEPT !.cells = [k \in 1..Len(shown) |->
                                                     Cell(shown[k], "Foreground")],
                                       !.writes = 1],
                       <<>>, fl, inCodeBlock, 0, FALSE)

\* the call, up to the range check
Flags_Call(p, fromline, toline) ==
    /\ frame[p].pc = "idle"
    /\ frame' = [frame EXCEPT ![p] = [IdleFrame EXCEPT !.pc = "check",
                                                       !.fromline = fromline,
                                                       !.toline = toline,
                                                       !.q = NoFlags]]
    /\ UNCHANGED <<edVars, writeLinesMutex, canvas, stdout>>

\* from the range check to the first row: the code block flag of Markdown and
\* the first loop
Flags_Begin(p) ==
    LET f == frame[p]
    IN  /\ f.pc = "check"
        /\ IF f.fromline >= f.toline
           THEN frame' = [frame EXCEPT ![p].pc = "done", ![p].ret = "range"]
           ELSE frame' = [frame EXCEPT ![p].pc = "row",
                              ![p].inCodeBlock =
                                  IF mode = "Markdown"
                                  THEN CodeBlockFrom(FALSE, 0, f.fromline, mode)
                                  ELSE FALSE,
                              ![p].q = FlagsPrelude(f.fromline),
                              ![p].replayFired =
                                  FlagsPreludeFired(NoFlags, 0, f.fromline, 0),
                              ![p].replayed = f.fromline]
        /\ UNCHANGED <<edVars, writeLinesMutex, canvas, stdout>>

\* one turn of the loop over the rows
Flags_Row(p, asTextError) ==
    LET f == frame[p]
        row == FlagsRowResult(f.fromline, f.y, f.q, f.inCodeBlock, asTextError)
    IN  /\ f.pc = "row"
        /\ f.y < f.toline - f.fromline
        /\ (asTextError => syntaxHighlight /\ ~envNoColor)
        /\ frame' = [frame EXCEPT
               ![p].y = f.y + 1,
               ![p].q = row.q,
               ![p].inCodeBlock = row.inCodeBlock,
               ![p].writes = f.writes + row.writes + Padding(row),
               ![p].path = row.path,
               ![p].processCalls = row.processCalls,
               ![p].qRow = f.q,
               ![p].fired = FlagsRowFired(f.q, f.fromline + f.y, row.path),
               ![p].onlyHighlighted =
                   f.onlyHighlighted /\ row.path \in {"override", "generic"}]
        /\ canvas' = DrawRow(canvas, f.y, row)
        /\ stdout' = stdout \o row.out
        /\ UNCHANGED <<edVars, writeLinesMutex>>

\* after the last row
Flags_Return(p) ==
    LET f == frame[p]
    IN  /\ f.pc = "row"
        /\ f.y >= f.toline - f.fromline
        /\ frame' = [frame EXCEPT ![p].pc = "done", ![p].ret = "nil"]
        /\ UNCHANGED <<edVars, writeLinesMutex, canvas, stdout>>

(***************************************************************************)
(* SpecFlags: one goroutine draws a document with the WriteLines that      *)
(* keeps the two flags.                                                    *)
(***************************************************************************)
FlagsModes == {"Go", "Git", "Markdown", "Makefile"}

FlagsSampleLines(m) ==
    {<<"/", "*">>, <<"*", "/">>, <<"a">>}
    \cup (CASE m = "Go" -> {<<BT>>, <<"*", "/", BT>>, <<BT, "a", BT>>}
            [] m = "Markdown" -> {<<BT, BT, BT>>}
            [] m = "Makefile" -> {<<Tab, "a">>}
            [] OTHER -> {})

InitFlags ==
    /\ mode \in FlagsModes
    /\ \E d \in DocsUpTo(FlagsSampleLines(mode), RenderMaxLines) :
          Len(d) > 0 /\ lines = DocOf(d)
    /\ pos = NewPosition
    /\ changed = FALSE
    /\ perTab = MaxTab
    /\ canvasW = MaxW
    /\ canvasH = MaxH
    /\ op = [name |-> "New"]
    /\ syntaxHighlight \in BOOLEAN
    /\ envNoColor \in BOOLEAN
    /\ envNoColor => syntaxHighlight
    /\ rainbowParenthesis = FALSE
    /\ searchTerm \in {<<>>, <<"a">>}
    /\ writeLinesMutex = 0
    /\ frame = [p \in Procs |-> IdleFrame]
    /\ canvas = <<>>
    /\ stdout = <<>>
    /\ NoSpinner

NextFlags ==
    \/ \E fromline \in 0..EdLen : \E toline \in 0..EdLen : Flags_Call(1, fromline, toline)
    \/ Flags_Begin(1)
    \/ \E asTextError \in BOOLEAN : Flags_Row(1, asTextError)
    \/ Flags_Return(1)

SpecFlags == InitFlags /\ [][NextFlags]_vars

\* C1, for the two flags: at every row of a call whose rows were all
\* highlighted, the flags are those the first loop computes for that line
C1_FlagsResumable ==
    \A p \in Procs :
        (frame[p].pc = "row" /\ frame[p].onlyHighlighted)
        => frame[p].q = FlagsPrelude(frame[p].fromline + frame[p].y)



(***************************************************************************)
(* SpecText: Line and ChopLine as functions of the document, the           *)
(* horizontal offset and the viewport width.  The lines map may lack keys  *)
(* below Len(), as CreateLineIfMissing can leave it.                       *)
(***************************************************************************)
TextMaxKey == 2   \* largest key of the lines map

TextChars == {"a", "b", WideRune}

InitText ==
    /\ \E K \in SUBSET (0..TextMaxKey) : \E l \in SeqsUpTo(TextChars, MaxLen) :
          lines = [i \in K |-> l]
    /\ pos \in [sx : {0}, sy : {0}, offsetX : 0..MaxX, offsetY : {0}]
    /\ changed = FALSE
    /\ perTab = MaxTab
    /\ canvasW = MaxW
    /\ canvasH = MaxH
    /\ op = [name |-> "New"]
    /\ NoRender

\* a call of e.Line(n)
CallLine(n) ==
    /\ op' = [name |-> "Line", n |-> n, ret |-> Line(n)]
    /\ UNCHANGED <<lines, pos, changed, perTab, canvasW, canvasH, renderVars, spinVars>>

\* a call of e.ChopLine(e.Line(n), viewportWidth); ret is the bytes returned
CallChopLine(n, viewportWidth) ==
    /\ op' = [name |-> "ChopLine", line |-> Line(n), viewportWidth |-> viewportWidth,
              ret |-> ChopLine(Line(n), viewportWidth)]
    /\ UNCHANGED <<lines, pos, changed, perTab, canvasW, canvasH, renderVars, spinVars>>

NextText ==
    \/ \E n \in (0 - 1)..(TextMaxKey + 1) : CallLine(n)
    \/ \E n \in 0..TextMaxKey : \E w \in 0..MaxW : CallChopLine(n, w)

SpecText == InitText /\ [][NextText]_vars

\* C11: a call of Line(n) leaves the lines map as it is; it returns the empty
\* string for every n that is negative, at or above Len(), or not a key of the
\* map, and the stored code points of the line for a key of the map.
C11_LineTotal ==
    [][op'.name = "Line" =>
          /\ lines' = lines
          /\ (op'.n < 0 \/ op'.n >= EdLen \/ op'.n \notin DOMAIN lines) => op'.ret = <<>>
          /\ op'.n \in DOMAIN lines => op'.ret = lines[op'.n]]_vars

\* a key below Len() that the map lacks has been read, beside a line with text
C11_Witness ==
    /\ op.name = "Line"
    /\ op.n >= 0 /\ op.n < EdLen /\ op.n \notin DOMAIN lines
    /\ op.ret = <<>>
    /\ \E k \in DOMAIN lines : Len(lines[k]) > 0

\* C12: ChopLine returns exactly the code points at the positions
\* [offsetX, offsetX + viewportWidth) of the line it is given, also when the
\* line holds code points of several bytes.
C12_ChopLineCodePoints ==
    op.name = "ChopLine" =>
        op.ret = BytesOf(SubSeq(op.line, pos.offsetX + 1,
                                Min({Len(op.line), pos.offsetX + op.viewportWidth})))

(***************************************************************************)
(* The cells of a highlighted row.                                         *)
(***************************************************************************)
\* the runes of a highlighted row that are left after the skip of offsetX
Visible(f) == SubSeq(f.ra.runes, pos.offsetX + 1, Len(f.ra.runes))

\* the rune written for a rune of the row
Shown(r) == IF IsControl(r) THEN ControlRuneReplacement ELSE r

Highlighted(f) == f.pc \in {"row", "unlock", "done"} /\ f.path \in {"override", "generic"}

\* C13: a highlighted row whose text after the skip of offsetX is wider than
\* the canvas writes exactly the first canvasW of those cells, from column 0,
\* and no cell at a column at or beyond canvasW.
C13_ClippedAtWidth ==
    \A p \in Procs :
        (Highlighted(frame[p]) /\ Len(Visible(frame[p])) > canvasW)
        => /\ Len(frame[p].cells) = canvasW
           /\ \A k \in 1..canvasW : frame[p].cells[k].r = Shown(Visible(frame[p])[k])

\* runesAndAttributes of a highlighted row, after the skip of offsetX
VisibleRa(f) ==
    [runes |-> Visible(f),
     attrs |-> SubSeq(f.ra.attrs, pos.offsetX + 1, Len(f.ra.attrs))]

\* the colors the search highlighting gives the runes of ra from index i on
RECURSIVE SearchOverlayFrom(_, _, _)
SearchOverlayFrom(ra, i, matchForAnotherN) ==
    IF i > Len(ra.runes) THEN <<>>
    ELSE <<SearchStep(ra, i, matchForAnotherN).fg>>
         \o SearchOverlayFrom(ra, i + 1, SearchStep(ra, i, matchForAnotherN).matchForAnotherN)

\* a row of cells after the search highlighting alone
SearchOverlay(ra) == [runes |-> ra.runes, attrs |-> SearchOverlayFrom(ra, 1, 0)]

(***************************************************************************)
(* SpecCells: one line of a Go file is drawn, with a search term, a        *)
(* horizontal offset and a canvas that may be narrower than the line.      *)
(***************************************************************************)
CellMaxLen == 4   \* longest line that is drawn

CellChars == {"a", "b", " "}

SearchTerms == {<<>>, <<"a">>, <<"a", "a">>, <<"a", "b">>, <<" ", "a">>}

InitCells ==
    /\ mode = "Go"
    /\ \E l \in SeqsUpTo(CellChars, CellMaxLen) : lines = DocOf(<<l>>)
    /\ pos \in [sx : {0}, sy : {0}, offsetX : {0, 1}, offsetY : {0}]
    /\ changed = FALSE
    /\ perTab = MaxTab
    /\ canvasW \in 2..MaxW
    /\ canvasH = MaxH
    /\ op = [name |-> "New"]
    /\ syntaxHighlight = TRUE
    /\ envNoColor = FALSE
    /\ rainbowParenthesis = FALSE
    /\ searchTerm \in SearchTerms
    /\ writeLinesMutex = 0
    /\ frame = [p \in Procs |-> IdleFrame]
    /\ canvas = <<>>
    /\ stdout = <<>>
    /\ NoSpinner

NextCells ==
    \/ WL_Call(1, 0, 1)
    \/ WL_Lock(1)
    \/ WL_Begin(1)
    \/ WL_Row(1, FALSE)
    \/ WL_Return(1)
    \/ WL_Unlock(1)

SpecCells == InitCells /\ [][NextCells]_vars

\* the indices of the runes in the occurrences of term that leftmost-first
\* matching without overlap finds from index i on
RECURSIVE Occurrences(_, _, _)
Occurrences(runes, term, i) ==
    IF Len(term) = 0 \/ i > Len(runes) THEN {}
    ELSE IF MatchAt(runes, term, i)
    THEN (i..(i + Len(term) - 1)) \cup Occurrences(runes, term, i + Len(term))
    ELSE Occurrences(runes, term, i + 1)

\* C14: the cells written for a highlighted row are the runes after the skip
\* of offsetX, up to the canvas width; a cell has the search color exactly when
\* its rune is in an occurrence of the search term found by leftmost-first
\* matching without overlap, otherwise it keeps its color (a space gets the
\* foreground color); the background is the editor's; an empty term colors
\* nothing.
C14_SearchHighlight ==
    \A p \in Procs :
        Highlighted(frame[p]) =>
            /\ Len(frame[p].cells) = Min({Len(Visible(frame[p])), canvasW})
            /\ \A k \in 1..Len(frame[p].cells) :
                  /\ frame[p].cells[k].bg = "Background"
                  /\ frame[p].cells[k].fg =
                        IF k \in Occurrences(Visible(frame[p]), searchTerm, 1)
                        THEN "SearchHighlight"
                        ELSE IF Visible(frame[p])[k] = " " THEN "Foreground"
                        ELSE VisibleRa(frame[p]).attrs[k]

\* a row "aaa" searched for "aa": two cells of the match, and a third "a" that
\* starts no match
C14_Witness ==
    \E p \in Procs :
        /\ Highlighted(frame[p])
        /\ searchTerm = <<"a", "a">>
        /\ Len(frame[p].cells) = 3
        /\ \A k \in 1..3 : frame[p].cells[k].r = "a"
        /\ frame[p].cells[1].fg = "SearchHighlight"
        /\ frame[p].cells[2].fg = "SearchHighlight"
        /\ frame[p].cells[3].fg # "SearchHighlight"

\* C15: the search highlighting applied to the cells it has colored, with the
\* same term, gives the colors of the first application; the cells written are
\* the first cells of that row.
C15_SearchIdempotent ==
    \A p \in Procs :
        Highlighted(frame[p]) =>
            /\ SearchOverlay(SearchOverlay(VisibleRa(frame[p])))
                   = SearchOverlay(VisibleRa(frame[p]))
            /\ \A k \in 1..Len(frame[p].cells) :
                  frame[p].cells[k].fg = SearchOverlay(VisibleRa(frame[p])).attrs[k]

\* a row with a space inside a match, a cell before the match and a match cut
\* by the canvas width
C15_Witness ==
    \E p \in Procs :
        /\ Highlighted(frame[p])
        /\ searchTerm = <<" ", "a">>
        /\ Len(Visible(frame[p])) > canvasW
        /\ frame[p].cells[1].fg = "syntax"
        /\ frame[p].cells[canvasW].r = " "
        /\ frame[p].cells[canvasW].fg = "SearchHighlight"

(***************************************************************************)
(* SpecRainbow: two lines of brackets of a Go file are drawn with rainbow  *)
(* parentheses; the first line opens up to two brackets.                   *)
(***************************************************************************)
RainbowMaxLen == 4   \* longest second line

BracketChars == {"(", ")", "[", "]"}

InitRainbow ==
    /\ mode = "Go"
    /\ \E first \in SeqsUpTo({"(", "["}, 2) : \E l \in SeqsUpTo(BracketChars, RainbowMaxLen) :
          lines = DocOf(<<first, l>>)
    /\ pos = NewPosition
    /\ changed = FALSE
    /\ perTab = MaxTab
    /\ canvasW = MaxW
    /\ canvasH = MaxH
    /\ op = [name |-> "New"]
    /\ syntaxHighlight = TRUE
    /\ envNoColor = FALSE
    /\ rainbowParenthesis = TRUE
    /\ searchTerm = <<>>
    /\ writeLinesMutex = 0
    /\ frame = [p \in Procs |-> IdleFrame]
    /\ canvas = <<>>
    /\ stdout = <<>>
    /\ NoSpinner

NextRainbow ==
    \/ \E fromline \in 0..1 : WL_Call(1, fromline, 2)
    \/ WL_Lock(1)
    \/ WL_Begin(1)
    \/ WL_Row(1, FALSE)
    \/ WL_Return(1)
    \/ WL_Unlock(1)

SpecRainbow == InitRainbow /\ [][NextRainbow]_vars

\* the opens less the closes among the first i runes
NetUpTo(runes, open, close, i) ==
    Cardinality({k \in 1..i : runes[k] = open}) - Cardinality({k \in 1..i : runes[k] = close})

\* the depth at which rune i of the last row of f stands, for one kind of
\* bracket: the running counter after the row, less the row's own net count,
\* and the brackets of the row before rune i
RowDepth(f, open, close, running, i) ==
    (running - NetUpTo(f.ra.runes, open, close, Len(f.ra.runes)))
    + NetUpTo(f.ra.runes, open, close, i - 1)

\* the brackets of one kind in the last row of f have the color of their depth
DepthColored(f, open, close, running) ==
    \A i \in 1..Len(f.ra.runes) :
        /\ f.ra.runes[i] = open
              => f.ra.attrs[i] = RainbowColor(RowDepth(f, open, close, running, i))
        /\ f.ra.runes[i] = close
              => f.ra.attrs[i] = RainbowColor(RowDepth(f, open, close, running, i) - 1)

\* rune j closes the bracket that rune i opens
Closes(runes, open, close, i, j) ==
    /\ i < j /\ runes[i] = open /\ runes[j] = close
    /\ NetUpTo(runes, open, close, j) = NetUpTo(runes, open, close, i - 1)
    /\ \A k \in i..(j - 1) : NetUpTo(runes, open, close, k) > NetUpTo(runes, open, close, i - 1)

\* an open bracket and the bracket that closes it have one color
PairsColored(f, open, close) ==
    \A i, j \in 1..Len(f.ra.runes) :
        Closes(f.ra.runes, open, close, i, j) => f.ra.attrs[i] = f.ra.attrs[j]

\* C16: on a row where rainbowParen finds no close bracket without an open
\* one, every open bracket has the palette color of its depth and every close
\* bracket that of the depth below it, the depth starting from the running
\* counter less the row's own net count; an open bracket and the bracket that
\* closes it have the same color.
C16_RainbowByDepth ==
    \A p \in Procs :
        (Highlighted(frame[p]) /\ frame[p].rainbow /\ ~frame[p].unmatched)
        => /\ DepthColored(frame[p], "(", ")", frame[p].q.parCount)
           /\ DepthColored(frame[p], "[", "]", frame[p].q.braCount)
           /\ PairsColored(frame[p], "(", ")")
           /\ PairsColored(frame[p], "[", "]")

\* the second row, below an open bracket, holds nested pairs: its first open
\* bracket has the second color of the palette and the next the first again
C16_Witness ==
    \E p \in Procs :
        /\ Highlighted(frame[p]) /\ frame[p].rainbow /\ ~frame[p].unmatched
        /\ frame[p].y = 2
        /\ frame[p].ra.runes = <<"(", "(", ")", ")">>
        /\ frame[p].ra.attrs = <<"rainbow1", "rainbow0", "rainbow0", "rainbow1">>

AfterRow(f) ==
    Process(f.qRow, TrimSpace(Line(f.fromline + f.y - 1)), SingleLineCommentMarker(mode))

\* C17: rainbowParen is called for a row only when rainbowParenthesis is set
\* and the lexical state after processing that row is outside any multi-line
\* comment or string and the row is no single-line comment.
C17_RainbowOnlyOutside ==
    \A p \in Procs :
        (Highlighted(frame[p]) /\ frame[p].rainbow)
        => /\ rainbowParenthesis
           /\ QNone(AfterRow(frame[p]))
           /\ ~AfterRow(frame[p]).singleLineComment

\* C17, for the rows that go through q.Process
C17_GenericRows ==
    \A p \in Procs :
        (Highlighted(frame[p]) /\ frame[p].rainbow /\ frame[p].path = "generic")
        => /\ rainbowParenthesis
           /\ QNone(AfterRow(frame[p]))
           /\ ~AfterRow(frame[p]).singleLineComment

\* C19: a call that drew its rows returns the "unsupported unicode text" error
\* exactly when the text of at least one row had over two bytes more than code
\* points, and only after every row of the range.
C19_UnicodeErrorAtEnd ==
    \A p \in Procs :
        (frame[p].pc \in {"unlock", "done"} /\ frame[p].ret \in {"unicode", "nil"})
        => /\ frame[p].ret = "unicode" <=> frame[p].wideRows > 0
           /\ frame[p].y = frame[p].toline - frame[p].fromline

\* a call has returned the error for its first row, after a second row
C19_Witness ==
    \E p \in Procs :
        /\ frame[p].pc = "done" /\ frame[p].ret = "unicode"
        /\ frame[p].y = 2 /\ frame[p].wideRows = 1
        /\ frame[p].lineStringCount = frame[p].lineRuneCount
        /\ \A x \in 0..(canvasW - 1) : <<x, 1>> \in DOMAIN canvas

\* the line of the last row of f, trimmed on the right, its tabs expanded
RowLine(f) == ExpandTabs(TrimRight(Line(f.fromline + f.y - 1)), perTab)

\* C20: a row for which syntax.AsText fails prints its chopped line and writes
\* none of it to the canvas; a call with such a row goes through all its rows,
\* and returns no error unless the text of a row has over two bytes more than
\* code points.
C20_AsTextFailureDegrades ==
    \A p \in Procs :
        /\ (frame[p].pc \in {"row", "unlock", "done"} /\ frame[p].path = "asTextError")
           => /\ frame[p].cells = <<>>
              /\ frame[p].out = <<RunesOf(ChopLine(RowLine(frame[p]), canvasW))>>
              /\ \A x \in 0..(frame[p].lineRuneCount - 1) :
                    <<x, frame[p].y - 1>> \notin DOMAIN canvas
        /\ (frame[p].pc \in {"unlock", "done"} /\ frame[p].ret \in {"unicode", "nil"}
            /\ stdout # <<>>)
           => /\ frame[p].y = frame[p].toline - frame[p].fromline
              /\ frame[p].wideRows = 0 => frame[p].ret = "nil"

\* a call whose first row failed and was printed has drawn its second row as
\* a highlighted row and has returned nil
C20_Witness ==
    \E p \in Procs :
        /\ frame[p].pc = "done" /\ frame[p].ret = "nil"
        /\ frame[p].y = 2
        /\ Len(stdout) = 1 /\ Len(stdout[1]) > 0
        /\ frame[p].path = "generic" /\ Len(frame[p].cells) > 0
        /\ <<0, 0>> \notin DOMAIN canvas

(***************************************************************************)
(* SpecSpinner: Editor.Load starts the spinner, works, and sends true on   *)
(* the quit channel when it returns; the goroutine Spinner starts polls    *)
(* the channel during its delay, then waits silently or animates.          *)
(***************************************************************************)
DelayRounds == 4      \* for i := 0; i < 4; i++
SpinnerFrames == 12   \* spinnerAnimation[counter%12]

\* what tty.Key() can return: no key, a letter, and esc, q, ctrl-q, ctrl-c
Keys == {0, 97, 27, 113, 17, 3}

StopKeys == {27, 113, 17, 3}

\* the variables the spinner leaves alone
loadVars == <<lines, pos, changed, perTab, canvasW, canvasH, op, renderVars>>

InitSpinner ==
    /\ lines = (0 :> <<"a">>)
    /\ pos = NewPosition
    /\ changed = FALSE
    /\ perTab = MaxTab
    /\ canvasW = MaxW
    /\ canvasH = MaxH
    /\ op = [name |-> "New"]
    /\ NoRender

\* quitChan := make(chan bool); go func() {...}(); return quitChan
Spinner(cNil, ttyNil, noColor) ==
    /\ quitChan = "none"
    /\ quitChan' = "open"
    /\ spinner' = [spinner EXCEPT !.pc = "delay", !.i = 0, !.cNil = cNil,
                                  !.ttyNil = ttyNil, !.noColor = noColor]
    /\ UNCHANGED loadVars

\* Load returns: its deferred function starts the send, which waits for the
\* goroutine to receive (the channel has no buffer)
Load_Return ==
    /\ quitChan = "open"
    /\ spinner.pc # "exited"
    /\ quitChan' = "sending"
    /\ UNCHANGED <<spinner, loadVars>>

\* quitMessage(tty, qmsg): the operation is stopped, the program ends
quitMessage(sp) == [sp EXCEPT !.pc = "exited"]

\* one round of the delay loop: the select takes the value when a send
\* waits, else the goroutine sleeps and goes on to the next round
Spinner_Delay ==
    /\ spinner.pc = "delay"
    /\ IF quitChan = "sending"
       THEN /\ quitChan' = "received"
            /\ spinner' = [spinner EXCEPT !.pc = "done"]
       ELSE /\ quitChan' = quitChan
            /\ spinner' = [spinner EXCEPT
                   !.i = @ + 1,
                   !.pc = IF spinner.i + 1 < DelayRounds THEN "delay"
                          ELSE IF spinner.cNil \/ spinner.ttyNil THEN "silent"
                          ELSE "setup"]
    /\ UNCHANGED loadVars

\* the silent spinner: <-quitChan, then return
Spinner_Silent ==
    /\ spinner.pc = "silent"
    /\ quitChan = "sending"
    /\ quitChan' = "received"
    /\ spinner' = [spinner EXCEPT !.pc = "done"]
    /\ UNCHANGED loadVars

\* the message is written and the cursor hidden
Spinner_Setup ==
    /\ spinner.pc = "setup"
    /\ spinner' = [spinner EXCEPT !.pc = "loop", !.cursor = FALSE, !.counter = 0]
    /\ UNCHANGED <<quitChan, loadVars>>

\* the select of the animation loop with the default case chosen although a
\* send waits
Spinner_Select_Default ==
    /\ spinner.pc = "loop"
    /\ spinner' = [spinner EXCEPT !.pc = "key", !.drawn = spinner.counter,
                                  !.counter = (@ + 1) % SpinnerFrames]
    /\ UNCHANGED <<quitChan, loadVars>>

\* the select of the animation loop: the value is taken when a send waits
\* (the deferred ShowCursor(true) runs), else a frame is drawn; the counter
\* is kept modulo the number of frames, which is all the drawing reads
Spinner_Select ==
    /\ spinner.pc = "loop"
    /\ IF quitChan = "sending"
       THEN /\ quitChan' = "received"
            /\ spinner' = [spinner EXCEPT !.pc = "done", !.cursor = TRUE]
       ELSE /\ quitChan' = quitChan
            /\ spinner' = [spinner EXCEPT !.pc = "key", !.drawn = spinner.counter,
                                          !.frames = 1,
                                          !.counter = (@ + 1) % SpinnerFrames]
    /\ UNCHANGED loadVars

\* tty.Key() returns; esc, q, ctrl-q and ctrl-c call quitMessage
Spinner_Key ==
    /\ spinner.pc = "key"
    /\ \E key \in Keys :
          spinner' = IF key \in StopKeys THEN quitMessage(spinner)
                     ELSE [spinner EXCEPT !.pc = "loop"]
    /\ UNCHANGED <<quitChan, loadVars>>

\* a step of the goroutine
SpinnerStep ==
    \/ Spinner_Delay
    \/ Spinner_Silent
    \/ Spinner_Setup
    \/ Spinner_Select
    \/ Spinner_Key

NextSpinner ==
    \/ \E cNil \in BOOLEAN : \E ttyNil \in BOOLEAN : \E noColor \in BOOLEAN :
          Spinner(cNil, ttyNil, noColor)
    \/ Load_Return
    \/ Spinner_Delay
    \/ Spinner_Silent
    \/ Spinner_Setup
    \/ Spinner_Select
    \/ Spinner_Key

\* a goroutine that can run is run in the end
SpecSpinner == InitSpinner /\ [][NextSpinner]_vars /\ WF_vars(SpinnerStep)

\* C21 as stated: once the send on the quit channel has started, the send
\* completes and the goroutine returns, in every phase.
C21_SendTerminates ==
    (quitChan = "sending") ~> (quitChan = "received" /\ spinner.pc = "done")

\* C21: once the send on the quit channel has started, either the send
\* completes and the goroutine returns, or a stop key read in the animation
\* loop has ended the program through quitMessage; after the value is
\* received no animation frame is drawn.
C21_SendTerminatesOrStopped ==
    /\ (quitChan = "sending") ~>
           \/ quitChan = "received" /\ spinner.pc = "done"
           \/ spinner.pc = "exited"
    /\ [][quitChan = "received" => spinner' = spinner]_vars
    /\ [](spinner.pc = "done" <=> quitChan = "received")

\* the value has been received in the animation loop after a frame was drawn
C21_Witness ==
    /\ quitChan = "received"
    /\ spinner.pc = "done"
    /\ ~(spinner.cNil \/ spinner.ttyNil)
    /\ spinner.frames = 1
    /\ spinner.cursor

\* C22: every line takes at most one of the five transitions of the two
\* flags, in the first loop and in the loop over the rows.
C22_OneTransition ==
    \A p \in Procs :
        /\ frame[p].replayFired <= 1
        /\ Cardinality(frame[p].fired) <= 1

\* the part of C22 about the first loop: one replayed line takes at most one
\* transition
C22_ReplayOneTransition == \A p \in Procs : frame[p].replayFired <= 1

\* the trimmed line of the row a call has just drawn, as the second loop sees it
FlagsRowTrimmed(f) == TrimSpace(ReplaceTabs(Line(f.fromline + f.y - 1), FlagsTabString))

\* the line has an odd number of backticks
OddBackticks(t) == (Count(t, Backtick) % 2) # 0

\* the call has just drawn a row that went through the five tests
FlagsGenericRow(f) == f.pc = "row" /\ f.y > 0 /\ f.path = "generic"

\* C23: for every row that goes through the tests of the two flags: a line
\* with an odd number of backticks, met outside a string and not a comment
\* line, sets the string flag with newlyStartedMultiLineString true; inside a
\* string a line with an even number keeps the flag and a line with an odd
\* number clears it, both with newlyStartedMultiLineString false; a line with
\* an even number of backticks never changes the flag.
C23_StringFlag ==
    \A p \in Procs :
        LET f == frame[p]
            newlyStarted == "MultiLineStringStart" \in f.fired
            odd == OddBackticks(FlagsRowTrimmed(f))
        IN  FlagsGenericRow(f) =>
                /\ (/\ odd
                    /\ ~f.qRow.inMultiLineString
                    /\ ~f.q.inMultiLineComment
                    /\ "SingleLineComment" \notin f.fired)
                   => (f.q.inMultiLineString /\ newlyStarted)
                /\ (f.qRow.inMultiLineString /\ ~odd) => (f.q.inMultiLineString /\ ~newlyStarted)
                /\ (f.qRow.inMultiLineString /\ odd) => (~f.q.inMultiLineString /\ ~newlyStarted)
                /\ ~odd => (f.q.inMultiLineString = f.qRow.inMultiLineString /\ ~newlyStarted)

\* a string opened on the row above has just been closed by a row with one
\* backtick
C23_Witness ==
    \E p \in Procs :
        LET f == frame[p]
        IN  /\ FlagsGenericRow(f)
            /\ f.y = 2
            /\ f.qRow.inMultiLineString
            /\ ~f.q.inMultiLineString
            /\ OddBackticks(FlagsRowTrimmed(f))

\* the modes of the case at src/highlight.go:207
NoBlockCommentModes == {"Config", "Shell", "CMake", "JSON"}

\* C24: in Config, Shell, CMake and JSON mode the lexical state of a call is
\* never inside a multi-line comment, whether the lines were replayed by the
\* first loop or drawn as rows.
C24_NoBlockComment ==
    mode \in NoBlockCommentModes => \A p \in Procs : ~frame[p].q.multiLineComment

(***************************************************************************)
(* SpecPaired: one line drawn in the modes whose comment marker may occur  *)
(* in a line more than once.                                               *)
(***************************************************************************)
PairedMaxLen == 4   \* longest line, in code points

PairedModes == {"Lisp", "Clojure", "Vim"}

PairedChars(m) == IF m = "Vim" THEN {"a", " ", DQuote} ELSE {"a", " ", ";"}

InitPaired ==
    /\ mode \in PairedModes
    /\ \E l \in SeqsUpTo(PairedChars(mode), PairedMaxLen) : lines = DocOf(<<l>>)
    /\ pos = NewPosition
    /\ changed = FALSE
    /\ perTab = MaxTab
    /\ canvasW = MaxW
    /\ canvasH = MaxH
    /\ op = [name |-> "New"]
    /\ syntaxHighlight = TRUE
    /\ envNoColor = FALSE
    /\ rainbowParenthesis = FALSE
    /\ searchTerm = <<>>
    /\ writeLinesMutex = 0
    /\ frame = [p \in Procs |-> IdleFrame]
    /\ canvas = <<>>
    /\ stdout = <<>>
    /\ NoSpinner

NextPaired ==
    \/ WL_Call(1, 0, 1)
    \/ WL_Lock(1)
    \/ WL_Begin(1)
    \/ \E asTextError \in BOOLEAN : WL_Row(1, asTextError)
    \/ WL_Return(1)
    \/ WL_Unlock(1)

SpecPaired == InitPaired /\ [][NextPaired]_vars

\* the line of the last row, trimmed on both sides
RowTrimmed(f) == TrimSpace(RowLine(f))

MarkdownMaxLines == 3   \* lines of the document

MarkdownSampleLines ==
    {<<BT, BT, BT>>, <<"~", "~", "~", "a">>, <<" ", BT, BT, BT>>, <<"a">>}

InitMarkdown ==
    /\ mode = "Markdown"
    /\ \E d \in DocsUpTo(MarkdownSampleLines, MarkdownMaxLines) :
          Len(d) = MarkdownMaxLines /\ lines = DocOf(d)
    /\ pos = NewPosition
    /\ changed = FALSE
    /\ perTab = MaxTab
    /\ canvasW = MaxW
    /\ canvasH = MaxH
    /\ op = [name |-> "New"]
    /\ syntaxHighlight \in BOOLEAN
    /\ envNoColor = FALSE
    /\ rainbowParenthesis = FALSE
    /\ searchTerm = <<>>
    /\ writeLinesMutex = 0
    /\ frame = [p \in Procs |-> IdleFrame]
    /\ canvas = <<>>
    /\ stdout = <<>>
    /\ NoSpinner

NextMarkdown ==
    \/ \E fromline \in 0..(EdLen - 1) : WL_Call(1, fromline, EdLen)
    \/ WL_Lock(1)
    \/ WL_Begin(1)
    \/ \E asTextError \in BOOLEAN : WL_Row(1, asTextError)
    \/ WL_Return(1)
    \/ WL_Unlock(1)

SpecMarkdown == InitMarkdown /\ [][NextMarkdown]_vars

\* the number of lines above fromline that start with a fence is odd
OddFencesAbove(fromline) ==
    (Cardinality({i \in 0..(fromline - 1) : IsFence(Line(i))}) % 2) = 1

\* markdownHighlight reports a fence for the row a call is about to draw
FenceReported(f) ==
    LET h == markdownHighlight(ExpandTabs(TrimRight(Line(f.fromline + f.y)), perTab),
                               f.inCodeBlock)
    IN  h.ok /\ h.codeBlockFound

\* C26: in Markdown mode inCodeBlock before the first row is true exactly
\* when an odd number of lines above fromline start with a fence; a row flips
\* it when markdownHighlight is called for the row and reports a fence, and
\* leaves it as it is otherwise.
C26_CodeBlockFlag ==
    /\ [](\A p \in Procs :
             (mode = "Markdown" /\ frame[p].pc = "row" /\ frame[p].y = 0)
             => (frame[p].inCodeBlock <=> OddFencesAbove(frame[p].fromline)))
    /\ [][\A p \in Procs :
             (mode = "Markdown" /\ frame[p].pc = "row" /\ frame'[p].y = frame[p].y + 1)
             => frame'[p].inCodeBlock =
                    IF frame'[p].path = "override" /\ FenceReported(frame[p])
                    THEN ~frame[p].inCodeBlock
                    ELSE frame[p].inCodeBlock]_vars

\* a call that started below two fences, outside a code block, has drawn a
\* fence and is inside a code block
C26_Witness ==
    \E p \in Procs :
        LET f == frame[p]
        IN  /\ mode = "Markdown"
            /\ f.pc = "row"
            /\ f.fromline = 2
            /\ f.y = 1
            /\ IsFence(Line(0)) /\ IsFence(Line(1)) /\ IsFence(Line(2))
            /\ f.path = "override"
            /\ f.inCodeBlock

\* C27: the cells a highlighted row writes are, from column 0, the code
\* points of the document line with its tabs expanded, from column offsetX
\* on, control code points replaced, in every mode.
C27_CellsAreLineColumns ==
    \A p \in Procs :
        LET f == frame[p]
        IN  (Highlighted(f) /\ f.y > 0) =>
                \A i \in 1..Min({Len(f.cells), canvasW}) :
                    /\ pos.offsetX + i <= Len(RowLine(f))
                    /\ f.cells[i].r = Shown(RowLine(f)[pos.offsetX + i])

\* C28: a cell written for a highlighted row has the search color exactly
\* when its rune is in an occurrence of the search term in the whole row,
\* the runes skipped for offsetX included.
C28_SearchBeforeSkip ==
    \A p \in Procs :
        Highlighted(frame[p]) =>
            \A k \in 1..Len(frame[p].cells) :
                frame[p].cells[k].fg = "SearchHighlight"
                <=> (pos.offsetX + k) \in Occurrences(frame[p].ra.runes, searchTerm, 1)

\* C29: after a row drawn through the plain or the highlighted path, the
\* text cells are the columns below lineRuneCount, which is at most the
\* width, and every column from there up to the width holds a blank with the
\* editor's colors: every column of the row is written, none at or beyond
\* the width.
C29_RowFilled ==
    \A p \in Procs :
        LET f == frame[p]
        IN  (/\ f.pc \in {"row", "unlock", "done"}
             /\ f.y > 0
             /\ f.path \in {"plain", "override", "generic"}) =>
                /\ Len(f.cells) = f.lineRuneCount
                /\ f.lineRuneCount <= canvasW
                /\ \A x \in 0..(canvasW - 1) :
                      /\ <<x, f.y - 1>> \in DOMAIN canvas
                      /\ x >= f.lineRuneCount
                         => canvas[<<x, f.y - 1>>] = Cell(" ", "Foreground")

(***************************************************************************)
(* SpecConsistent: MakeConsistent, one turn of its loop at a time, called  *)
(* on a lines map with any set of keys from 0 on.                          *)
(***************************************************************************)
ConsistentMaxKey == 4   \* largest key of the lines map

InitConsistent ==
    /\ \E K \in SUBSET (0..ConsistentMaxKey) : lines \in [K -> {<<>>, <<"a">>}]
    /\ pos = NewPosition
    /\ changed = FALSE
    /\ perTab = MaxTab
    /\ canvasW = MaxW
    /\ canvasH = MaxH
    /\ op = [name |-> "New"]
    /\ NoRender

\* a call of MakeConsistent is in its loop
MakeConsistentLoop == IF op.name = "MakeConsistent" THEN op.pc = "loop" ELSE FALSE

\* a call of MakeConsistent has returned
MakeConsistentDone == IF op.name = "MakeConsistent" THEN op.pc = "done" ELSE FALSE

\* the call: i := 0
MakeConsistent_Call ==
    /\ ~MakeConsistentLoop
    /\ op' = [name |-> "MakeConsistent", pc |-> "loop", i |-> 0, before |-> lines]
    /\ UNCHANGED <<lines, changed, pos, perTab, canvasW, canvasH, renderVars, spinVars>>

\* one turn of the loop, or its end: len(e.lines) is read at every turn
MakeConsistent_Step ==
    /\ MakeConsistentLoop
    /\ IF op.i < Cardinality(DOMAIN lines)
       THEN /\ op' = [op EXCEPT !.i = @ + 1]
            /\ IF op.i \in DOMAIN lines
               THEN UNCHANGED <<lines, changed>>
               ELSE /\ lines' = MapPut(lines, op.i, <<>>)
                    /\ changed' = TRUE
       ELSE /\ op' = [op EXCEPT !.pc = "done"]
            /\ UNCHANGED <<lines, changed>>
    /\ UNCHANGED <<pos, perTab, canvasW, canvasH, renderVars, spinVars>>

NextConsistent ==
    \/ MakeConsistent_Call
    \/ MakeConsistent_Step

\* a call that can take a step takes it
SpecConsistent == InitConsistent /\ [][NextConsistent]_vars /\ WF_vars(MakeConsistent_Step)


\* C30: a call of MakeConsistent returns, and when it has returned every
\* index below Len() is a key of the lines map, Len() is what it was before
\* the call and every line the map had before the call is as it was.
C30_MakeConsistent ==
    /\ MakeConsistentLoop ~> MakeConsistentDone
    /\ [](MakeConsistentDone =>
             /\ \A i \in 0..(EdLen - 1) : i \in DOMAIN lines
             /\ EdLen = LenOf(op.before)
             /\ \A k \in DOMAIN op.before : k \in DOMAIN lines /\ lines[k] = op.before[k])

\* C30 for a lines map that has a key when MakeConsistent is called
C30_NonEmptyMap ==
    /\ MakeConsistentLoop ~> MakeConsistentDone
    /\ []((MakeConsistentDone /\ DOMAIN op.before # {}) =>
             /\ \A i \in 0..(EdLen - 1) : i \in DOMAIN lines
             /\ EdLen = LenOf(op.before)
             /\ \A k \in DOMAIN op.before : k \in DOMAIN lines /\ lines[k] = op.before[k]
             /\ lines = MakeConsistent(op.before))

(***************************************************************************)
(* SpecEdit: a gap-free document edited by DeleteLine, InsertLineBelowAt   *)
(* and LoadBytes, and read back by String.                                 *)
(***************************************************************************)
EditMaxLines == 3   \* most lines of a document of SpecEdit

EditLines == {<<>>, <<"a">>, <<"b">>}

LoadTextChars == {"a", "\n", WideRune}

\* every index below Len() is a key of the map
GapFree(ls) == \A i \in 0..(LenOf(ls) - 1) : i \in DOMAIN ls

EditBounded(ls) == \A k \in DOMAIN ls : k < EditMaxLines

InitEdit ==
    /\ \E n \in 1..EditMaxLines : lines \in [0..(n - 1) -> EditLines]
    /\ pos = NewPosition
    /\ changed = FALSE
    /\ perTab = MaxTab
    /\ canvasW = MaxW
    /\ canvasH = MaxH
    /\ op = [name |-> "New"]
    /\ NoRender

\* Editor.String: the bytes of every line below Len(), each followed by "\n"
RECURSIVE StringFrom(_, _)
StringFrom(i, l) ==
    IF i >= l THEN <<>>
    ELSE BytesOf(Line(i)) \o BytesOf(<<"\n">>) \o StringFrom(i + 1, l)

String == StringFrom(0, EdLen)

\* a call of e.String() that follows LoadBytes(op.arg)
CallString ==
    /\ op.name = "LoadBytes"
    /\ op' = [name |-> "String", arg |-> op.arg, ret |-> String]
    /\ UNCHANGED <<lines, pos, changed, perTab, canvasW, canvasH, renderVars, spinVars>>

NextEdit ==
    \/ \E n \in (0 - 1)..EditMaxLines : DeleteLine(n)
    \/ \E y \in 0..(EditMaxLines - 1) : InsertLineBelowAt(y) /\ EditBounded(lines')
    \/ \E d \in SeqsUpTo(LoadTextChars, LoadMaxLen) :
          LoadBytes(BytesOf(d)) /\ EditBounded(lines')
    \/ CallString

SpecEdit == InitEdit /\ [][NextEdit]_vars

\* what the claim says of the lines after DeleteLine(n) on a gap-free document
DeleteLineShifts(n) ==
    IF 0 <= n /\ n < EdLen
    THEN /\ \A i \in 0..EditMaxLines :
              Line(i)' = IF i < n THEN Line(i) ELSE Line(i + 1)
         /\ EdLen > 1 => EdLen' = EdLen - 1
    ELSE lines' = lines

\* C31: on a gap-free document DeleteLine(n) with 0 <= n < Len() keeps the
\* lines before n, moves every later line one index down, decreases Len()
\* by one when there was more than one line and sets the changed flag; for
\* n < 0 or n >= Len() the content is unchanged.
C31_DeleteLine ==
    [][\A n \in (0 - 1)..EditMaxLines :
          (GapFree(lines) /\ DeleteLine(n)) =>
              /\ DeleteLineShifts(n)
              /\ (0 <= n /\ n < EdLen) => changed']_vars

\* the same without the changed flag
C31_DeleteLineContent ==
    [][\A n \in (0 - 1)..EditMaxLines :
          (GapFree(lines) /\ DeleteLine(n)) => DeleteLineShifts(n)]_vars

\* the changed flag is set by DeleteLine(n) for every n but the last index
C31_ChangedBelowLast ==
    [][\A n \in (0 - 1)..EditMaxLines :
          (GapFree(lines) /\ DeleteLine(n) /\ 0 <= n /\ n < EdLen - 1) => changed']_vars

\* what the claim says of the lines after InsertLineBelowAt(y)
InsertBelowShifts(y) ==
    /\ Line(y + 1)' = <<>>
    /\ \A i \in 0..y : Line(i)' = Line(i)
    /\ \A i \in (y + 1)..EditMaxLines : Line(i + 1)' = Line(i)

\* C32: on a gap-free document InsertLineBelowAt(y) with 0 <= y < Len()
\* leaves an empty line at y + 1, keeps the lines up to y, moves every later
\* line one index up and makes Len() grow by exactly one.
C32_InsertLineBelowAt ==
    [][\A y \in 0..(EditMaxLines - 1) :
          (GapFree(lines) /\ y < EdLen /\ InsertLineBelowAt(y)) =>
              /\ InsertBelowShifts(y)
              /\ EdLen' = EdLen + 1]_vars

\* the same without the length
C32_InsertLineBelowAtContent ==
    [][\A y \in 0..(EditMaxLines - 1) :
          (GapFree(lines) /\ y < EdLen /\ InsertLineBelowAt(y)) =>
              InsertBelowShifts(y)]_vars

\* the number of lines of a text: its newlines, and one more for a last
\* line that does not end with a newline
TextLines(data) ==
    Cardinality({i \in 1..Len(data) : data[i].r = "\n"})
        + (IF Len(data) > 0 /\ data[Len(data)].r # "\n" THEN 1 ELSE 0)

\* the text with a final newline added when it has none
WithFinalNewline(data) ==
    IF Len(data) > 0 /\ data[Len(data)].r = "\n" THEN data
    ELSE data \o BytesOf(<<"\n">>)

ScrollMaxLines == 4   \* most lines of a scrolled document
MaxSpeed == 2         \* largest scrollSpeed

IdleCall ==
    [pc |-> "idle", kind |-> "", scrollSpeed |-> 0, offset |-> 0, canScroll |-> 0,
     ret |-> FALSE, before |-> NewPosition]

InitScroll ==
    /\ \E n \in 1..ScrollMaxLines : lines = [i \in 0..(n - 1) |-> <<>>]
    /\ canvasH \in 1..MaxH
    /\ pos \in [sx : {0}, sy : 0..(MaxH - 1), offsetX : 0..1, offsetY : 0..ScrollMaxLines]
    /\ pos.sy <= canvasH - 1
    /\ pos.offsetY <= Max({0, EdLen - (canvasH - 1)})
    /\ changed = FALSE
    /\ perTab = MaxTab
    /\ canvasW = MaxW
    /\ op = [name |-> "Scroll", last |-> 1, calls |-> [p \in Procs |-> IdleCall]]
    /\ NoRender

\* goroutine p calls ScrollDown or ScrollUp: canScroll := scrollSpeed
Scroll_Call(p, kind, scrollSpeed) ==
    /\ op.calls[p].pc \in {"idle", "done"}
    /\ op' = [op EXCEPT !.last = p,
                        !.calls[p] = [pc |-> "read", kind |-> kind,
                                      scrollSpeed |-> scrollSpeed, offset |-> 0,
                                      canScroll |-> scrollSpeed, ret |-> FALSE,
                                      before |-> pos]]
    /\ UNCHANGED <<lines, pos, changed, perTab, canvasW, canvasH, renderVars, spinVars>>

\* ScrollDown up to the write lock: the read of offsetY, Len(), the early
\* return and the choice of canScroll
ScrollDown_Read(p) ==
    LET c == op.calls[p]
        canvasLastY == canvasH - 1
        offset == pos.offsetY
        l == EdLen
    IN  /\ c.pc = "read"
        /\ c.kind = "ScrollDown"
        /\ op' = [op EXCEPT !.calls[p] =
                    IF offset >= l - canvasLastY
                    THEN [c EXCEPT !.pc = "done", !.offset = offset, !.ret = FALSE]
                    ELSE [c EXCEPT !.pc = "write", !.offset = offset,
                                   !.canScroll =
                                       IF (offset + c.canScroll) >= (l - canvasLastY)
                                       THEN (l - canvasLastY) - offset
                                       ELSE c.canScroll]]
        /\ UNCHANGED <<lines, pos, changed, perTab, canvasW, canvasH, renderVars, spinVars>>

\* ScrollDown under the write lock: offsetX = 0, offsetY += canScroll
ScrollDown_Write(p) ==
    LET c == op.calls[p]
    IN  /\ c.pc = "write"
        /\ c.kind = "ScrollDown"
        /\ pos' = [pos EXCEPT !.offsetX = 0, !.offsetY = pos.offsetY + c.canScroll]
        /\ op' = [op EXCEPT !.calls[p] = [c EXCEPT !.pc = "done", !.ret = TRUE]]
        /\ UNCHANGED <<lines, changed, perTab, canvasW, canvasH, renderVars, spinVars>>

\* ScrollUp that scrolls by scrollSpeed whatever the offset is
ScrollUp_Read_NoClamp(p) ==
    LET c == op.calls[p]
        offset == pos.offsetY
    IN  /\ c.pc = "read"
        /\ c.kind = "ScrollUp"
        /\ op' = [op EXCEPT !.calls[p] =
                    IF offset = 0
                    THEN [c EXCEPT !.pc = "done", !.offset = offset, !.ret = TRUE]
                    ELSE [c EXCEPT !.pc = "write", !.offset = offset]]
        /\ UNCHANGED <<lines, pos, changed, perTab, canvasW, canvasH, renderVars, spinVars>>

\* ScrollUp up to the write lock: the read of offsetY, the early return and
\* the choice of canScroll
ScrollUp_Read(p) ==
    LET c == op.calls[p]
        offset == pos.offsetY
    IN  /\ c.pc = "read"
        /\ c.kind = "ScrollUp"
        /\ op' = [op EXCEPT !.calls[p] =
                    IF offset = 0
                    THEN [c EXCEPT !.pc = "done", !.offset = offset, !.ret = TRUE]
                    ELSE [c EXCEPT !.pc = "write", !.offset = offset,
                                   !.canScroll = IF offset - c.canScroll < 0
                                                 THEN offset
                                                 ELSE c.canScroll]]
        /\ UNCHANGED <<lines, pos, changed, perTab, canvasW, canvasH, renderVars, spinVars>>

\* ScrollUp under the write lock: offsetX = 0, offsetY -= canScroll
ScrollUp_Write(p) ==
    LET c == op.calls[p]
    IN  /\ c.pc = "write"
        /\ c.kind = "ScrollUp"
        /\ pos' = [pos EXCEPT !.offsetX = 0, !.offsetY = pos.offsetY - c.canScroll]
        /\ op' = [op EXCEPT !.calls[p] = [c EXCEPT !.pc = "done", !.ret = TRUE]]
        /\ UNCHANGED <<lines, changed, perTab, canvasW, canvasH, renderVars, spinVars>>

\* no call is between its two steps
NoCallActive == \A q \in Procs : op.calls[q].pc \in {"idle", "done"}

NextScroll ==
    \/ \E p \in Procs : \E kind \in {"ScrollDown", "ScrollUp"} : \E s \in 0..MaxSpeed :
          NoCallActive /\ Scroll_Call(p, kind, s)
    \/ \E p \in Procs : ScrollDown_Read(p)
    \/ \E p \in Procs : ScrollDown_Write(p)
    \/ \E p \in Procs : ScrollUp_Read(p)
    \/ \E p \in Procs : ScrollUp_Write(p)

SpecScroll == InitScroll /\ [][NextScroll]_vars

\* the largest offsetY ScrollDown scrolls to
ScrollLimit == EdLen - (canvasH - 1)

\* C34: a ScrollUp call made at offsetY >= 0 with scrollSpeed >= 0 leaves
\* offsetY = max(0, offsetY - scrollSpeed); a ScrollDown call leaves
\* min(offsetY + scrollSpeed, Len() - (h - 1)) when offsetY was below
\* Len() - (h - 1), and else changes nothing and returns false; sy is kept,
\* offsetY is not negative, and offsetX is 0 when offsetY has changed.
C34_Scroll ==
    LET c == op.calls[op.last]
        b == c.before
    IN  c.pc = "done" =>
            /\ pos.sy = b.sy
            /\ pos.offsetY >= 0
            /\ pos.offsetY # b.offsetY => pos.offsetX = 0
            /\ c.kind = "ScrollUp" =>
                   pos.offsetY = Max({0, b.offsetY - c.scrollSpeed})
            /\ c.kind = "ScrollDown" =>
                   IF b.offsetY < ScrollLimit
                   THEN pos.offsetY = Min({b.offsetY + c.scrollSpeed, ScrollLimit})
                   ELSE pos = b /\ ~c.ret

C34_Witness ==
    LET c == op.calls[op.last]
    IN  /\ c.pc = "done"
        /\ c.kind = "ScrollDown"
        /\ c.ret
        /\ c.before.offsetX = 1
        /\ c.before.offsetY > 0
        /\ c.before.offsetY + c.scrollSpeed > ScrollLimit
        /\ pos.offsetY = ScrollLimit
        /\ pos.offsetX = 0

\* SpecScrollRace: the goroutines call ScrollDown on the same editor and
\* their steps interleave
NextScrollRace ==
    \/ \E p \in Procs : \E s \in 0..MaxSpeed : Scroll_Call(p, "ScrollDown", s)
    \/ \E p \in Procs : ScrollDown_Read(p)
    \/ \E p \in Procs : ScrollDown_Write(p)

SpecScrollRace == InitScroll /\ [][NextScrollRace]_vars

\* C40: under concurrent ScrollDown calls offsetY never exceeds
\* Len() - (h - 1), the bound a single call keeps (0 for a document that
\* fits the canvas).
C40_ScrollDownBound == pos.offsetY <= Max({0, ScrollLimit})

\* the bound holds when one call runs at a time
C40_SequentialBound == []C40_ScrollDownBound

(***************************************************************************)
(* SpecCursor: a position on a canvas of any width and height, moved by    *)
(* Position.SetX, Up, Down, IncY and DecY.                                 *)
(***************************************************************************)
InitCursor ==
    /\ lines = [i \in {0} |-> <<>>]
    /\ canvasW \in 1..MaxW
    /\ canvasH \in 1..MaxH
    /\ pos \in [sx : 0..(MaxW - 1), sy : 0..(MaxH - 1), offsetX : 0..1, offsetY : 0..1]
    /\ pos.sx <= canvasW - 1
    /\ pos.sy <= canvasH - 1
    /\ changed = FALSE
    /\ perTab = MaxTab
    /\ op = [name |-> "New"]
    /\ NoRender

\* IncY without the test against the height
PosIncY_NoClamp ==
    /\ pos' = [pos EXCEPT !.sy = pos.sy + 1]
    /\ op' = [name |-> "IncY"]
    /\ UNCHANGED <<lines, changed, perTab, canvasW, canvasH, renderVars, spinVars>>

\* Position.IncY
PosIncY ==
    /\ pos' = [pos EXCEPT !.sy = IF pos.sy + 1 > canvasH - 1
                                 THEN canvasH - 1
                                 ELSE pos.sy + 1]
    /\ op' = [name |-> "IncY"]
    /\ UNCHANGED <<lines, changed, perTab, canvasW, canvasH, renderVars, spinVars>>

\* Position.DecY
PosDecY ==
    /\ pos' = [pos EXCEPT !.sy = IF pos.sy - 1 < 0 THEN 0 ELSE pos.sy - 1]
    /\ op' = [name |-> "DecY"]
    /\ UNCHANGED <<lines, changed, perTab, canvasW, canvasH, renderVars, spinVars>>

NextCursor ==
    \/ \E x \in 0..(MaxX + 1) : PosSetX(x)
    \/ PosUp
    \/ PosDown
    \/ PosIncY
    \/ PosDecY

SpecCursor == InitCursor /\ [][NextCursor]_vars

\* C35: after SetX(c, x) with x >= 0 on a canvas of width w >= 1 the column
\* sx + offsetX is x, sx lies in 0..w-1 and offsetX is 0 exactly when
\* x < w; SetX changes neither sy nor offsetY.
C35_SetX ==
    /\ [](IF op.name = "SetX"
          THEN /\ pos.sx + pos.offsetX = op.arg
               /\ 0 <= pos.sx
               /\ pos.sx <= canvasW - 1
               /\ pos.offsetX = 0 <=> op.arg < canvasW
          ELSE TRUE)
    /\ [][\A x \in 0..(MaxX + 1) :
             PosSetX(x) => pos'.sy = pos.sy /\ pos'.offsetY = pos.offsetY]_vars

C35_Witness ==
    /\ op.name = "SetX"
    /\ op.arg > canvasW
    /\ canvasW > 1
    /\ pos.offsetX = (op.arg - canvasW) + 1
    /\ pos.sx = canvasW - 1
    /\ pos.sy > 0
    /\ pos.offsetY > 0

\* a step changes nothing of the position but sy
OnlySy == pos' = [pos EXCEPT !.sy = pos'.sy]

\* C36: from 0 <= sy <= h - 1, every sequence of Up, Down, IncY and DecY
\* keeps sy in that range; Up returns an error exactly when sy <= 0 and Down
\* exactly when sy >= h - 1, an error leaves the whole position unchanged,
\* and no operation changes offsetY, sx or offsetX.
C36_ScreenY ==
    /\ [](0 <= pos.sy /\ pos.sy <= canvasH - 1)
    /\ [][PosUp => /\ op'.err <=> pos.sy <= 0
                   /\ op'.err => pos' = pos
                   /\ OnlySy]_vars
    /\ [][PosDown => /\ op'.err <=> pos.sy >= canvasH - 1
                     /\ op'.err => pos' = pos
                     /\ OnlySy]_vars
    /\ [][(PosIncY \/ PosDecY) => OnlySy]_vars

C36_Witness ==
    /\ op.name = "Down"
    /\ op.err
    /\ canvasH > 1
    /\ pos.sy = canvasH - 1
    /\ pos.offsetY > 0

(***************************************************************************)
(* SpecMan: handleManPageEscape called on every string over two letters    *)
(* and ^H, up to a bounded length.                                         *)
(***************************************************************************)
ManMaxLen == 4   \* longest string given to handleManPageEscape

ManChars == {"a", "b", BS}

InitMan ==
    /\ lines = EmptyMap
    /\ pos = NewPosition
    /\ changed = FALSE
    /\ perTab = MaxTab
    /\ canvasW = MaxW
    /\ canvasH = MaxH
    /\ \E s \in SeqsUpTo(ManChars, ManMaxLen) :
          op = [name |-> "New", s |-> s, ret |-> <<>>, panic |-> FALSE]
    /\ NoRender

\* a call of handleManPageEscape(s): what it returns, or that it panicked
CallManEscape ==
    /\ op.name = "New"
    /\ op' = [name |-> "handleManPageEscape", s |-> op.s,
              ret |-> handleManPageEscape(op.s).runes,
              panic |-> handleManPageEscape(op.s).panic]
    /\ UNCHANGED <<lines, pos, changed, perTab, canvasW, canvasH, renderVars, spinVars>>

NextMan == CallManEscape

SpecMan == InitMan /\ [][NextMan]_vars

\* what the claim says the result is: ^H removes the code point before it,
\* and is dropped when there is none
RECURSIVE EscapeDropping(_, _, _)
EscapeDropping(s, i, acc) ==
    IF i > Len(s) THEN acc
    ELSE IF s[i] = BS
    THEN EscapeDropping(s, i + 1, IF Len(acc) = 0 THEN acc
                                   ELSE SubSeq(acc, 1, Len(acc) - 1))
    ELSE EscapeDropping(s, i + 1, Append(acc, s[i]))

\* some ^H of s comes when nothing is accumulated
RECURSIVE PopsNothing(_, _, _)
PopsNothing(s, i, n) ==
    IF i > Len(s) THEN FALSE
    ELSE IF s[i] = BS THEN n = 0 \/ PopsNothing(s, i + 1, n - 1)
    ELSE PopsNothing(s, i + 1, n + 1)

\* C37: handleManPageEscape fails for no string; every ^H removes itself and
\* the code point accumulated before it, a ^H with nothing before it is
\* dropped, the other code points are kept in order and the result holds
\* no ^H.
C37_ManEscapeTotal ==
    op.name = "handleManPageEscape" =>
        /\ ~op.panic
        /\ op.ret = EscapeDropping(op.s, 1, <<>>)
        /\ \A i \in 1..Len(op.ret) : op.ret[i] # BS

\* the same for the strings where every ^H has a code point before it
C37_ManEscapeAfterText ==
    (op.name = "handleManPageEscape" /\ ~PopsNothing(op.s, 1, 0)) =>
        /\ ~op.panic
        /\ op.ret = EscapeDropping(op.s, 1, <<>>)
        /\ \A i \in 1..Len(op.ret) : op.ret[i] # BS

\* the call panics exactly when some ^H has nothing before it
C37_PanicOnEmpty ==
    op.name = "handleManPageEscape" => (op.panic <=> PopsNothing(op.s, 1, 0))

(***************************************************************************)
(* SpecLockFair: the goroutines call WriteLines again and again on the     *)
(* same editor, for the second line of a document of two lines or for an   *)
(* empty range, through every return path, under a fair scheduler.         *)
(***************************************************************************)
\* NewQuoteState returns an error and the call returns without the unlock
WL_QuoteStateError_NoUnlock(p) ==
    LET f == frame[p]
    IN  /\ f.pc = "check"
        /\ f.fromline < f.toline
        /\ frame' = [frame EXCEPT ![p].pc = "done", ![p].ret = "quotestate"]
        /\ UNCHANGED <<edVars, writeLinesMutex, canvas, stdout>>

\* NewQuoteState returns an error: the call returns it, before the first loop
WL_QuoteStateError(p) ==
    LET f == frame[p]
    IN  /\ f.pc = "check"
        /\ f.fromline < f.toline
        /\ frame' = [frame EXCEPT ![p].pc = "unlock", ![p].ret = "quotestate"]
        /\ UNCHANGED <<edVars, writeLinesMutex, canvas, stdout>>

\* the caller has the result and may call again
WL_Returned(p) ==
    /\ frame[p].pc = "done"
    /\ frame' = [frame EXCEPT ![p].pc = "idle"]
    /\ UNCHANGED <<edVars, writeLinesMutex, canvas, stdout>>

InitLockFair ==
    /\ mode = "Go"
    /\ lines \in {DocOf(<<<<"/", "*">>, <<"a">>>>), DocOf(<<<<"a">>, <<WideRune>>>>)}
    /\ pos = NewPosition
    /\ changed = FALSE
    /\ perTab = MaxTab
    /\ canvasW = MaxW
    /\ canvasH = MaxH
    /\ op = [name |-> "New"]
    /\ syntaxHighlight = TRUE
    /\ envNoColor = FALSE
    /\ rainbowParenthesis = TRUE
    /\ searchTerm = <<>>
    /\ writeLinesMutex = 0
    /\ frame = [p \in Procs |-> IdleFrame]
    /\ canvas = <<>>
    /\ stdout = <<>>
    /\ NoSpinner

\* what goroutine p does once it has called, but for taking the mutex
WL_Run(p) ==
    \/ WL_Begin(p)
    \/ WL_Row(p, FALSE)
    \/ WL_Return(p)
    \/ WL_Unlock(p)

NextLockFair ==
    \E p \in Procs :
        \/ \E toline \in 1..2 : WL_Call(p, 1, toline)
        \/ WL_Lock(p)
        \/ WL_QuoteStateError(p)
        \/ WL_Run(p)
        \/ WL_Returned(p)

\* WL_Run(p) is enabled exactly here: the range check, a row or the return
\* after the last row, and the unlock can each be taken
RunEnabled(p) == frame[p].pc \in {"check", "row", "unlock"}

\* a goroutine that can run does run (weak fairness of WL_Run(p), written
\* with RunEnabled(p) for ENABLED <<WL_Run(p)>>_vars), and sync.Mutex hands
\* the mutex to a waiting goroutine (starvation mode): a Lock that can be
\* taken again and again is taken
SpecLockFair ==
    /\ InitLockFair
    /\ [][NextLockFair]_vars
    /\ \A p \in Procs : /\ ([]<>(~RunEnabled(p)) \/ []<><<WL_Run(p)>>_vars)
                        /\ SF_vars(WL_Lock(p))

\* C38: the mutex is not held by a call that has returned, whatever the
\* path; the lexical state q of a call is assigned only while the call holds
\* the mutex; and under fair scheduling a caller that waits for the mutex
\* enters the render pass and every call returns.
C38_LockReleased ==
    /\ \A p \in Procs : [](frame[p].pc \in {"idle", "lock", "done"} => writeLinesMutex # p)
    /\ [][\A p \in Procs :
             (frame'[p].q # frame[p].q /\ frame'[p].pc # "lock")
                 => (writeLinesMutex = p /\ writeLinesMutex' = p)]_vars
    /\ \A p \in Procs : (frame[p].pc = "lock") ~> (frame[p].pc = "check")
    /\ \A p \in Procs : (frame[p].pc = "check") ~> (frame[p].pc = "done")

\* a call has returned the error of NewQuoteState and another call, which
\* took the mutex after it, is drawing rows
C38_Witness ==
    \E p \in Procs : \E o \in Procs \ {p} :
        /\ frame[p].pc = "done"
        /\ frame[p].ret = "quotestate"
        /\ frame[o].pc = "row"
        /\ frame[o].y > 0
        /\ writeLinesMutex = o

\* C39: in the WriteLines that keeps the two flags, inMultiLineComment and
\* inMultiLineString are never both true: not after the first loop has
\* replayed the lines above fromline, and not after any row.
C39_FlagsExclusive ==
    \A p \in Procs :
        frame[p].pc \in {"row", "done"} =>
            ~(frame[p].q.inMultiLineComment /\ frame[p].q.inMultiLineString)

\* inside a multi-line string, a row whose line holds the block-comment open
\* marker has left the comment flag alone
C39_Witness ==
    \E p \in Procs :
        LET f == frame[p]
        IN  /\ f.pc = "row"
            /\ f.y = 1
            /\ f.path = "generic"
            /\ f.replayed = 1
            /\ f.qRow.inMultiLineString
            /\ Contains(TrimSpace(Line(f.fromline)), BlockOpen)
            /\ f.q.inMultiLineString
            /\ ~f.q.inMultiLineComment

=============================================================================
